---- MODULE Spec2Model ----
(***************************************************************************)
(* Model of the IP-range consolidation engine of tools/cip.py and of the   *)
(* pipeline around it: main.py, task_manager.py, webUI.py.                 *)
(*                                                                         *)
(* Representation.                                                         *)
(*  - A string holding an address is a record [cip, oct]: cip says whether *)
(*    the text carries the literal 'cip-' tag, oct is the sequence of the  *)
(*    dot-separated fields.  A field that int() accepts is held as its     *)
(*    value (>= 0); a field that int() rejects is held as a negative       *)
(*    number.                                                              *)
(*  - Python integers are unbounded.  An integer n is held as the pair     *)
(*    <<n >> 8, n & 0xFF>>, so that values below 0 and above 2^31 are      *)
(*    exact.                                                               *)
(*  - A CIDR string "a.b.c.d/p" is a record [network, prefix_len].         *)
(*                                                                         *)
(* Five specifications.  Spec follows run() step by step on a list of      *)
(* tokens.  UnitSpec calls one function of the module on its own: fn is    *)
(* the function, arg its argument and out what the call gave.  TermSpec    *)
(* adds the while loops of expand_group_properly, one iteration a step.    *)
(* MainSpec follows main.main() over a spreadsheet, one stage call a       *)
(* step.  WebSpec follows the requests /api/start_task and /api/stop_task  *)
(* of webUI.py and the threads TaskManager.run_main starts.                *)
(***************************************************************************)
EXTENDS Integers, Sequences, FiniteSets, TLC

VARIABLES input_ips, filter_private, pc, cleaned_ips, valid_ips,
          subnet_groups, next_bucket, all_cidr_ips, all_single_ips,
          cidr_list, ret,
          fn, arg, out,
          book, is_running, thread, request

vars == <<input_ips, filter_private, pc, cleaned_ips, valid_ips,
          subnet_groups, next_bucket, all_cidr_ips, all_single_ips,
          cidr_list, ret, fn, arg, out, book, is_running, thread, request>>

\* the spreadsheet and the task manager
webvars == <<book, is_running, thread, request>>

\* tools/cip.py on its own: no spreadsheet is open and no task manager exists
NoPipeline ==
    /\ book = <<>>
    /\ is_running = FALSE
    /\ thread = <<>>
    /\ request = <<>>

\* every list of at most MaxLen tokens of Pool is an input
MaxLen == 2

\* a call of cidr_to_ips on its own is followed through the first MaxEnum
\* values of its loop variable
MaxEnum == 510

\* a call of group_by_gap on its own gets a list of at most MaxRun integers
MaxRun == 4

\* a padding loop followed one iteration at a time is followed for at most
\* MaxWalk iterations
MaxWalk == 16

max_gap == 8
forward == 10
backward == 10

---------------------------------------------------------------------------
\* Arithmetic on Python integers held as <<n >> 8, n & 0xFF>>.

RECURSIVE BitOr(_, _)
BitOr(a, b) ==
    IF a = 0 THEN b
    ELSE IF b = 0 THEN a
    ELSE (IF a % 2 = 1 \/ b % 2 = 1 THEN 1 ELSE 0) + 2 * BitOr(a \div 2, b \div 2)

IntAdd(n, k) == <<n[1] + ((n[2] + k) \div 256), (n[2] + k) % 256>>

IntLess(a, b) == a[1] < b[1] \/ (a[1] = b[1] /\ a[2] < b[2])

IntLeq(a, b) == a = b \/ IntLess(a, b)

\* a - b, for operands close enough for the difference to be a small number
IntSub(a, b) == (a[1] - b[1]) * 256 + (a[2] - b[2])

\* floor(log2 n) in place of the number of bits of n
RECURSIVE bit_length_floor(_)
bit_length_floor(n) == IF n <= 1 THEN 0 ELSE 1 + bit_length_floor(n \div 2)

RECURSIVE bit_length(_)
bit_length(n) == IF n = 0 THEN 0 ELSE 1 + bit_length(n \div 2)

Pow2(k) == 2^k

Max(a, b) == IF a >= b THEN a ELSE b
Min(a, b) == IF a <= b THEN a ELSE b

Range(s) == {s[i] : i \in 1..Len(s)}

\* min() and max() of a non-empty list of integers, over s[lo..hi]
RECURSIVE IntMinIn(_, _, _)
IntMinIn(s, lo, hi) ==
    IF lo = hi THEN s[lo]
    ELSE LET mid == (lo + hi) \div 2
             a == IntMinIn(s, lo, mid)
             b == IntMinIn(s, mid + 1, hi)
         IN  IF IntLess(b, a) THEN b ELSE a

RECURSIVE IntMaxIn(_, _, _)
IntMaxIn(s, lo, hi) ==
    IF lo = hi THEN s[lo]
    ELSE LET mid == (lo + hi) \div 2
             a == IntMaxIn(s, lo, mid)
             b == IntMaxIn(s, mid + 1, hi)
         IN  IF IntLess(a, b) THEN b ELSE a

IntMinOf(s) == IntMinIn(s, 1, Len(s))

IntMaxOf(s) == IntMaxIn(s, 1, Len(s))

\* list.reverse()
Reverse(s) == [i \in 1..Len(s) |-> s[Len(s) + 1 - i]]

\* sorted() of a list of integers: ascending, equal values are the same value
SortInts(s) == SortSeq(s, IntLess)

\* what a call of one function gave: nothing yet, a value, an exception
NotCalled == [kind |-> "pending"]
Ret(v) == [kind |-> "return", val |-> v]
Exc == [kind |-> "raise"]

---------------------------------------------------------------------------
\* Address Normalizer

Str(o) == [cip |-> FALSE, oct |-> o]

\* str.replace('cip-', '')
StripCip(ip) == [ip EXCEPT !.cip = FALSE]

\* list(map(int, s.split('.'))) raises ValueError
MapIntRaises(ip) == ip.cip \/ \E i \in 1..Len(ip.oct) : ip.oct[i] < 0

ip_to_int_raises(ip) ==
    LET clean_ip == StripCip(ip)
    IN  MapIntRaises(clean_ip) \/ Len(clean_ip.oct) < 4

\* line 10 without its last operand
ip_to_int_no_last_octet(ip) ==
    LET octets == StripCip(ip).oct
    IN  <<BitOr(BitOr(octets[1] * 65536, octets[2] * 256), octets[3]), 0>>

ip_to_int(ip) ==
    LET octets == StripCip(ip).oct
    IN  << BitOr(BitOr(BitOr(octets[1] * 65536, octets[2] * 256), octets[3]),
                 octets[4] \div 256),
           octets[4] % 256 >>

\* line 15 with the second field shifted like the first
int_to_ip_wrong_shift(num) ==
    Str(<< (num[1] \div 65536) % 256, (num[1] \div 65536) % 256,
           num[1] % 256, num[2] >>)

int_to_ip(num) ==
    Str(<< (num[1] \div 65536) % 256, (num[1] \div 256) % 256,
           num[1] % 256, num[2] >>)

is_excluded_raises(ip_str) ==
    \/ ip_str.oct[Len(ip_str.oct)] < 0
    \/ ip_str.cip /\ Len(ip_str.oct) = 1

\* line 21 testing 0 only
is_excluded_zero_only(ip_str) == ip_str.oct[Len(ip_str.oct)] = 0

is_excluded(ip_str) == ip_str.oct[Len(ip_str.oct)] \in {0, 255}

is_private_ip_raises(ip_str) ==
    LET clean_ip == StripCip(ip_str)
    IN  \/ MapIntRaises(clean_ip)
        \/ Len(clean_ip.oct) < 2 /\ clean_ip.oct[1] \in {172, 192, 169, 100}

\* line 36 with 32 as the upper limit
is_private_ip_wide(ip_str) ==
    LET octets == StripCip(ip_str).oct
    IN  \/ octets[1] = 10
        \/ octets[1] = 172 /\ 16 <= octets[2] /\ octets[2] <= 32
        \/ octets[1] = 192 /\ octets[2] = 168
        \/ octets[1] = 127
        \/ octets[1] = 169 /\ octets[2] = 254
        \/ octets[1] = 100 /\ 64 <= octets[2] /\ octets[2] <= 127

is_private_ip(ip_str) ==
    LET octets == StripCip(ip_str).oct
    IN  \/ octets[1] = 10
        \/ octets[1] = 172 /\ 16 <= octets[2] /\ octets[2] <= 31
        \/ octets[1] = 192 /\ octets[2] = 168
        \/ octets[1] = 127
        \/ octets[1] = 169 /\ octets[2] = 254
        \/ octets[1] = 100 /\ 64 <= octets[2] /\ octets[2] <= 127

filter_private_ips_raises(ip_list) ==
    \E i \in 1..Len(ip_list) : is_private_ip_raises(ip_list[i])

NotPrivate(ip) == ~is_private_ip(ip)

filter_private_ips(ip_list) == SelectSeq(ip_list, NotPrivate)

---------------------------------------------------------------------------
\* Gap Clusterer

\* line 75 as gap < max_gap
GapStep_strict(st, ip, gap_max) ==
    IF IntLess(ip, IntAdd(st.current_group[Len(st.current_group)], gap_max))
    THEN [st EXCEPT !.current_group = Append(@, ip)]
    ELSE IF Len(st.current_group) = 1
         THEN [groups |-> st.groups,
               singles |-> Append(st.singles, st.current_group[1]),
               current_group |-> <<ip>>]
         ELSE [groups |-> Append(st.groups, st.current_group),
               singles |-> st.singles,
               current_group |-> <<ip>>]

\* the body of the loop of lines 72-82, for one ip
GapStep(st, ip, gap_max) ==
    IF IntLeq(ip, IntAdd(st.current_group[Len(st.current_group)], gap_max))
    THEN [st EXCEPT !.current_group = Append(@, ip)]
    ELSE IF Len(st.current_group) = 1
         THEN [groups |-> st.groups,
               singles |-> Append(st.singles, st.current_group[1]),
               current_group |-> <<ip>>]
         ELSE [groups |-> Append(st.groups, st.current_group),
               singles |-> st.singles,
               current_group |-> <<ip>>]

\* the loop over ips_int[lo..hi] in order.  The range is halved and the left
\* half is evaluated before the right half starts, which keeps the evaluation
\* shallow; the steps are taken in the order of the list.
RECURSIVE GapLoop(_, _, _, _, _)
GapLoop(st, ips_int, lo, hi, gap_max) ==
    IF lo > hi THEN st
    ELSE IF lo = hi THEN GapStep(st, ips_int[lo], gap_max)
    ELSE LET mid == (lo + hi) \div 2
             left == GapLoop(st, ips_int, lo, mid, gap_max)
         IN  IF Len(left.current_group) >= 1
             THEN GapLoop(left, ips_int, mid + 1, hi, gap_max)
             ELSE left

group_by_gap(ips_int, gap_max) ==
    IF ips_int = <<>> THEN [groups |-> <<>>, singles |-> <<>>]
    ELSE LET st == GapLoop([groups |-> <<>>, singles |-> <<>>,
                            current_group |-> <<ips_int[1]>>],
                           ips_int, 2, Len(ips_int), gap_max)
         IN  IF Len(st.current_group) = 1
             THEN [groups |-> st.groups,
                   singles |-> Append(st.singles, st.current_group[1])]
             ELSE [groups |-> Append(st.groups, st.current_group),
                   singles |-> st.singles]

---------------------------------------------------------------------------
\* Range Expander

\* the while loops looking at the next count integers, excluded ones counted
RECURSIVE PadWalk_steps(_, _, _, _, _)
PadWalk_steps(current, step, count, original_set, acc) ==
    IF count <= 0 THEN acc
    ELSE IF ~is_excluded(int_to_ip(current)) /\ current \notin original_set
         THEN PadWalk_steps(IntAdd(current, step), step, count - 1, original_set,
                            Append(acc, current))
         ELSE PadWalk_steps(IntAdd(current, step), step, count - 1, original_set, acc)

\* the two while loops: step is -1 for the forward pad, +1 for the backward pad
RECURSIVE PadWalk(_, _, _, _, _)
PadWalk(current, step, count, original_set, acc) ==
    IF Len(acc) >= count THEN acc
    ELSE IF ~is_excluded(int_to_ip(current)) /\ current \notin original_set
         THEN PadWalk(IntAdd(current, step), step, count, original_set,
                      Append(acc, current))
         ELSE PadWalk(IntAdd(current, step), step, count, original_set, acc)

\* one iteration of a while loop that keeps current inside [0, 2^32 - 1]
PadIter_clamped(st, step, original_set) ==
    LET next == IntAdd(st.current, step)
        inside == next[1] >= 0 /\ next[1] <= 16777215
    IN  [current |-> IF inside THEN next ELSE st.current,
         ips |-> IF ~is_excluded(int_to_ip(st.current)) /\ st.current \notin original_set
                    /\ inside
                 THEN Append(st.ips, st.current)
                 ELSE st.ips]

\* one iteration of the while loop of lines 102-106 (step -1) or 112-116
\* (step 1): st holds current and the list collected so far
PadIter(st, step, original_set) ==
    [current |-> IntAdd(st.current, step),
     ips |-> IF ~is_excluded(int_to_ip(st.current)) /\ st.current \notin original_set
             THEN Append(st.ips, st.current)
             ELSE st.ips]

MiddleKeep(original_set, ip) ==
    ip \notin original_set /\ ~is_excluded(int_to_ip(ip))

\* line 120 as range(min_ip + 1, max_ip - 1)
middle_ips_short(min_ip, max_ip, original_set) ==
    LET n == IntSub(max_ip, min_ip) - 2
        all == [k \in 1..(IF n > 0 THEN n ELSE 0) |-> IntAdd(min_ip, k)]
        Keep(ip) == MiddleKeep(original_set, ip)
    IN  SelectSeq(all, Keep)

middle_ips(min_ip, max_ip, original_set) ==
    LET n == IntSub(max_ip, min_ip) - 1
        all == [k \in 1..(IF n > 0 THEN n ELSE 0) |-> IntAdd(min_ip, k)]
        Keep(ip) == MiddleKeep(original_set, ip)
    IN  SelectSeq(all, Keep)

Cidr(network, prefix_len) == [network |-> network, prefix_len |-> prefix_len]

expand_group_properly(group, fwd, bwd) ==
    LET min_ip == IntMinOf(group)
        max_ip == IntMaxOf(group)
        original_set == Range(group)
        forward_ips == Reverse(PadWalk(IntAdd(min_ip, -1), -1, fwd, original_set, <<>>))
        backward_ips == PadWalk(IntAdd(max_ip, 1), 1, bwd, original_set, <<>>)
        all_ips_int == forward_ips \o group
                         \o middle_ips(min_ip, max_ip, original_set) \o backward_ips
        min_all == IntMinOf(all_ips_int)
        max_all == IntMaxOf(all_ips_int)
        prefix_len == Max(24, Min(32, 32 - bit_length(IntSub(max_all, min_all))))
    IN  [cidr |-> Cidr(int_to_ip(min_all), prefix_len),
         ips_int |-> all_ips_int,
         start_ip |-> int_to_ip(min_all),
         end_ip |-> int_to_ip(max_all),
         original_count |-> Len(group),
         expanded_count |-> Len(all_ips_int)]

---------------------------------------------------------------------------
\* CIDR Materializer

\* network_int & ((0xFFFFFFFF << (32 - prefix_len)) & 0xFFFFFFFF)
MaskAnd(network_int, prefix_len) ==
    LET host_bits == 32 - prefix_len
        hi == network_int[1] % 16777216
    IN  IF host_bits <= 8
        THEN <<hi, network_int[2] - (network_int[2] % Pow2(host_bits))>>
        ELSE <<hi - (hi % Pow2(host_bits - 8)), 0>>

NotExcluded(ip_str) == ~is_excluded(ip_str)

cidr_to_ips(cidr) ==
    LET network_int == ip_to_int(StripCip(cidr.network))
        host_bits == 32 - cidr.prefix_len
        num_hosts == Pow2(host_bits)
        network_addr == MaskAnd(network_int, cidr.prefix_len)
        all == [k \in 1..(IF num_hosts > 2 THEN num_hosts - 2 ELSE 0) |->
                   int_to_ip(IntAdd(network_addr, k))]
    IN  SelectSeq(all, NotExcluded)

\* cidr_to_ips called on its own, on any text.  The text is a record [form,
\* network, prefix_len]: form "plain" is a text without '/' (network is the
\* whole text), "slashes" a text with more than one '/', "badprefix" a text
\* "network/x" whose x int() rejects, and "cidr" the text "network/prefix_len"
\* with prefix_len any integer that int() reads, negative ones included.
CidrText(form, network, prefix_len) ==
    [form |-> form, network |-> network, prefix_len |-> prefix_len]

\* an exception leaves cidr_to_ips: the unpacking of line 152, int() of line
\* 153, ip_to_int of line 159, the negative shift count of line 162
cidr_to_ips_raises(c) ==
    /\ c.form # "plain"
    /\ \/ c.form = "slashes"
       \/ c.form = "badprefix"
       \/ ip_to_int_raises(StripCip(c.network))
       \/ 32 - c.prefix_len < 0

\* line 168 without its - 1
broadcast_addr_past_end(network_addr, host_bits) ==
    IF host_bits < 8
    THEN IntAdd(network_addr, Pow2(host_bits))
    ELSE <<network_addr[1] + Pow2(host_bits - 8), network_addr[2]>>

\* network_addr + 2 ** host_bits - 1
broadcast_addr(network_addr, host_bits) ==
    IF host_bits < 8
    THEN IntAdd(network_addr, Pow2(host_bits) - 1)
    ELSE IntAdd(<<network_addr[1] + Pow2(host_bits - 8), network_addr[2]>>, -1)

\* the loop of lines 171-175 over range(network_addr + 1, broadcast), followed
\* through the first cap values of ip_int
cidr_to_ips_loop(network_addr, broadcast, cap) ==
    LET InRange(ip_int) == IntLess(ip_int, broadcast)
        ip_ints == SelectSeq([k \in 1..cap |-> IntAdd(network_addr, k)], InRange)
        ip_strs == [i \in 1..Len(ip_ints) |-> int_to_ip(ip_ints[i])]
    IN  SelectSeq(ip_strs, NotExcluded)

\* what the call gives: an exception, or the list returned; complete says
\* that the loop ended within its first MaxEnum values
cidr_to_ips_call(c) ==
    IF c.form = "plain"
    THEN [kind |-> "return", val |-> <<c.network>>, complete |-> TRUE]
    ELSE IF cidr_to_ips_raises(c) THEN Exc
    ELSE LET network_int == ip_to_int(StripCip(c.network))
             host_bits == 32 - c.prefix_len
             network_addr == MaskAnd(network_int, c.prefix_len)
             broadcast == broadcast_addr(network_addr, host_bits)
         IN  [kind |-> "return",
              val |-> cidr_to_ips_loop(network_addr, broadcast, MaxEnum),
              complete |-> ~IntLess(IntAdd(network_addr, MaxEnum + 1), broadcast)]

---------------------------------------------------------------------------
\* Subnet Partitioner

\* line 214 keeping two fields of the text
Prefix16(ip_int) == SubSeq(int_to_ip(ip_int).oct, 1, 2)

Prefix24(ip_int) == SubSeq(int_to_ip(ip_int).oct, 1, 3)

\* subnet_groups[prefix].append(ip_int) on a dict that keeps insertion order
BucketAppend(groups, prefix, ip_int) ==
    IF \E i \in 1..Len(groups) : groups[i].prefix = prefix
    THEN [i \in 1..Len(groups) |->
            IF groups[i].prefix = prefix
            THEN [groups[i] EXCEPT !.ips = Append(@, ip_int)]
            ELSE groups[i]]
    ELSE Append(groups, [prefix |-> prefix, ips |-> <<ip_int>>])

\* the loop of lines 213-216 over ips_int_sorted[lo..hi] in order (halved as
\* in GapLoop)
RECURSIVE PartitionLoop(_, _, _, _)
PartitionLoop(groups, ips_int_sorted, lo, hi) ==
    IF lo > hi THEN groups
    ELSE IF lo = hi
         THEN BucketAppend(groups, Prefix24(ips_int_sorted[lo]), ips_int_sorted[lo])
    ELSE LET mid == (lo + hi) \div 2
             left == PartitionLoop(groups, ips_int_sorted, lo, mid)
         IN  IF Len(left) >= 1
             THEN PartitionLoop(left, ips_int_sorted, mid + 1, hi)
             ELSE left

\* line 209 without the sort
sorted_ips_int_unsorted(ips_int) == ips_int

sorted_ips_int(ips_int) == SortInts(ips_int)

\* lines 211-216 left out: all integers in one bucket
partition_one_bucket(valid) ==
    LET ips_int == [i \in 1..Len(valid) |-> ip_to_int(valid[i])]
    IN  <<[prefix |-> <<>>, ips |-> sorted_ips_int(ips_int)]>>

partition(valid) ==
    LET ips_int == [i \in 1..Len(valid) |-> ip_to_int(valid[i])]
    IN  PartitionLoop(<<>>, sorted_ips_int(ips_int), 1, Len(ips_int))

---------------------------------------------------------------------------
\* Result Assembler

\* the body of "for prefix, ips in subnet_groups.items()" applied to one bucket
RECURSIVE ExpandGroups(_, _, _)
ExpandGroups(groups, i, acc) ==
    IF i > Len(groups) THEN acc
    ELSE LET result == expand_group_properly(groups[i], forward, backward)
         IN  ExpandGroups(groups, i + 1,
                 [cidr_list |-> Append(acc.cidr_list, result.cidr),
                  all_cidr_ips |-> acc.all_cidr_ips \o cidr_to_ips(result.cidr)])

\* lines 241-242 left out
single_ip_strs_dropped(singles) == <<>>

single_ip_strs(singles) == [i \in 1..Len(singles) |-> int_to_ip(singles[i])]

process_bucket(ips, acc) ==
    LET g == group_by_gap(ips, max_gap)
        e == ExpandGroups(g.groups, 1,
                 [cidr_list |-> acc.cidr_list, all_cidr_ips |-> acc.all_cidr_ips])
    IN  [cidr_list |-> e.cidr_list,
         all_cidr_ips |-> e.all_cidr_ips,
         all_single_ips |-> acc.all_single_ips \o single_ip_strs(g.singles)]

RECURSIVE SetToSeq(_)
SetToSeq(S) ==
    IF S = {} THEN <<>>
    ELSE LET x == CHOOSE y \in S : TRUE IN <<x>> \o SetToSeq(S \ {x})

KeyLess(a, b) == IntLess(ip_to_int(a), ip_to_int(b))

\* bit b (0..31) of a 32-bit value
KeyBit(num, b) ==
    IF b >= 8 THEN (num[1] \div Pow2(b - 8)) % 2 ELSE (num[2] \div Pow2(b)) % 2

\* the texts of the pairs <<key, text>> of K in ascending order of key, found
\* bit by bit from bit b down; texts with one key keep the order of the set
RECURSIVE SortedByKey(_, _)
SortedByKey(K, b) ==
    IF K = {} THEN <<>>
    ELSE IF b < 0 \/ Cardinality(K) = 1 THEN SetToSeq({k[2] : k \in K})
    ELSE LET zeros == {k \in K : KeyBit(k[1], b) = 0}
         IN  SortedByKey(zeros, b - 1) \o SortedByKey(K \ zeros, b - 1)

\* lines 247-250 without the set and the sort
all_ips_unsorted(cidr_ips, single_ips) == cidr_ips \o single_ips

\* sorted(list(set(all_cidr_ips + all_single_ips)), key=ip_to_int): the
\* elements are texts that int_to_ip rendered
all_ips_sorted(cidr_ips, single_ips) ==
    SortedByKey({<<ip_to_int(x), x>> : x \in Range(cidr_ips \o single_ips)}, 31)

\* sorted(cidr_list, key=network as integer), stable
RECURSIVE InsertCidr(_, _)
InsertCidr(x, s) ==
    IF s = <<>> THEN <<x>>
    ELSE IF KeyLess(x.network, Head(s).network) THEN <<x>> \o s
    ELSE <<Head(s)>> \o InsertCidr(x, Tail(s))

RECURSIVE cidr_list_sorted(_)
cidr_list_sorted(s) ==
    IF s = <<>> THEN <<>>
    ELSE InsertCidr(s[Len(s)], cidr_list_sorted(SubSeq(s, 1, Len(s) - 1)))

Returned(ips, cidrs) == [kind |-> "return", ips |-> ips, cidrs |-> cidrs]
Raised == [kind |-> "raise", ips |-> <<>>, cidrs |-> <<>>]
Running == [kind |-> "running", ips |-> <<>>, cidrs |-> <<>>]

clean_input(ips) == [i \in 1..Len(ips) |-> StripCip(ips[i])]

exclude_raises(cleaned) == \E i \in 1..Len(cleaned) : is_excluded_raises(cleaned[i])

exclude_filter(cleaned) == SelectSeq(cleaned, NotExcluded)

convert_raises(valid) == \E i \in 1..Len(valid) : ip_to_int_raises(valid[i])

RECURSIVE ProcessFrom(_, _, _)
ProcessFrom(groups, i, acc) ==
    IF i > Len(groups) THEN acc
    ELSE ProcessFrom(groups, i + 1, process_bucket(groups[i].ips, acc))

EmptyAcc == [cidr_list |-> <<>>, all_cidr_ips |-> <<>>, all_single_ips |-> <<>>]

\* run(input_ips, filter_private) as one function: the value it returns, or
\* Raised when an exception leaves it
run(ips, fp) ==
    LET cleaned0 == clean_input(ips)
    IN  IF fp /\ filter_private_ips_raises(cleaned0) THEN Raised
        ELSE LET cleaned == IF fp THEN filter_private_ips(cleaned0) ELSE cleaned0
             IN  IF exclude_raises(cleaned) THEN Raised
                 ELSE LET valid == exclude_filter(cleaned)
                      IN  IF valid = <<>> THEN Returned(<<>>, <<>>)
                          ELSE IF convert_raises(valid) THEN Raised
                          ELSE LET acc == ProcessFrom(partition(valid), 1, EmptyAcc)
                               IN  Returned(all_ips_sorted(acc.all_cidr_ips, acc.all_single_ips),
                                            cidr_list_sorted(acc.cidr_list))

---------------------------------------------------------------------------
\* The input lists explored

Addr(a, b, c, d) == Str(<<a, b, c, d>>)

Tagged(ip) == [ip EXCEPT !.cip = TRUE]

WellFormedPool ==
    { Addr(8, 8, 8, 100), Addr(8, 8, 8, 101),       \* a cluster in mid bucket
      Addr(8, 8, 8, 40),                            \* an isolated address
      Addr(11, 0, 0, 1), Addr(11, 0, 0, 2),         \* a cluster right above 10/8
      Addr(192, 168, 1, 10),                        \* a private address
      Addr(8, 8, 8, 255),                           \* an excluded address
      Tagged(Addr(8, 8, 8, 100)) }                  \* "cip-8.8.8.100"

MalformedPool ==
    { Str(<<8, 8, 8, -1>>),                         \* "8.8.8.x"
      Str(<<8, 8, 8>>),                             \* "8.8.8"
      Addr(8, 8, 8, 256),                           \* "8.8.8.256"
      Addr(8, -1, 8, 0) }                           \* "8.x.8.0"

Pool == WellFormedPool \cup MalformedPool

Perms(s) == {[i \in 1..Len(s) |-> s[f[i]]] : f \in Permutations(1..Len(s))}

\* longer lists, each explored in every order
Scenarios ==
    { <<Addr(8, 8, 8, 100), Addr(8, 8, 8, 101), Addr(11, 0, 0, 1), Addr(11, 0, 0, 2)>>,
      <<Addr(8, 8, 8, 40), Addr(8, 8, 8, 100), Addr(8, 8, 8, 101)>>,
      <<Addr(8, 8, 8, 40), Addr(192, 168, 1, 10), Addr(11, 0, 0, 1)>>,
      <<Addr(8, 8, 8, 100), Addr(8, 8, 8, 101), Addr(8, 8, 8, 256)>>,
      <<Addr(8, 8, 8, 40), Addr(8, 8, 8, 100), Str(<<8, 8, 8, -1>>)>>,
      <<Addr(8, 8, 7, 254), Addr(8, 8, 8, 1), Addr(8, 8, 8, 2)>> }

Inputs == UNION {[1..n -> Pool] : n \in 0..MaxLen} \cup UNION {Perms(s) : s \in Scenarios}

---------------------------------------------------------------------------
\* run() step by step

Init ==
    /\ input_ips \in Inputs
    /\ filter_private \in BOOLEAN
    /\ pc = "clean"
    /\ cleaned_ips = <<>>
    /\ valid_ips = <<>>
    /\ subnet_groups = <<>>
    /\ next_bucket = 1
    /\ all_cidr_ips = <<>>
    /\ all_single_ips = <<>>
    /\ cidr_list = <<>>
    /\ ret = Running
    /\ fn = "run"
    /\ arg = <<>>
    /\ out = NotCalled
    /\ NoPipeline

\* lines 193-198
FilterPrivate ==
    /\ pc = "clean"
    /\ ~(filter_private /\ filter_private_ips_raises(clean_input(input_ips)))
    /\ cleaned_ips' = IF filter_private
                      THEN filter_private_ips(clean_input(input_ips))
                      ELSE clean_input(input_ips)
    /\ pc' = "exclude"
    /\ UNCHANGED <<webvars, fn, arg, out, input_ips, filter_private, valid_ips, subnet_groups, next_bucket,
                   all_cidr_ips, all_single_ips, cidr_list, ret>>

\* line 201, with something left
FilterExcluded ==
    /\ pc = "exclude"
    /\ ~exclude_raises(cleaned_ips)
    /\ exclude_filter(cleaned_ips) # <<>>
    /\ valid_ips' = exclude_filter(cleaned_ips)
    /\ pc' = "partition"
    /\ UNCHANGED <<webvars, fn, arg, out, input_ips, filter_private, cleaned_ips, subnet_groups, next_bucket,
                   all_cidr_ips, all_single_ips, cidr_list, ret>>

\* lines 201-203, with nothing left
ReturnEmpty ==
    /\ pc = "exclude"
    /\ ~exclude_raises(cleaned_ips)
    /\ exclude_filter(cleaned_ips) = <<>>
    /\ valid_ips' = <<>>
    /\ ret' = Returned(<<>>, <<>>)
    /\ pc' = "done"
    /\ UNCHANGED <<webvars, fn, arg, out, input_ips, filter_private, cleaned_ips, subnet_groups, next_bucket,
                   all_cidr_ips, all_single_ips, cidr_list>>

\* lines 208-223
Partition ==
    /\ pc = "partition"
    /\ ~convert_raises(valid_ips)
    /\ subnet_groups' = partition(valid_ips)
    /\ next_bucket' = 1
    /\ pc' = "buckets"
    /\ UNCHANGED <<webvars, fn, arg, out, input_ips, filter_private, cleaned_ips, valid_ips,
                   all_cidr_ips, all_single_ips, cidr_list, ret>>

\* lines 225-244, one iteration
ProcessBucket ==
    /\ pc = "buckets"
    /\ next_bucket <= Len(subnet_groups)
    /\ LET acc == process_bucket(subnet_groups[next_bucket].ips,
                      [cidr_list |-> cidr_list, all_cidr_ips |-> all_cidr_ips,
                       all_single_ips |-> all_single_ips])
       IN  /\ cidr_list' = acc.cidr_list
           /\ all_cidr_ips' = acc.all_cidr_ips
           /\ all_single_ips' = acc.all_single_ips
    /\ next_bucket' = next_bucket + 1
    /\ UNCHANGED <<webvars, fn, arg, out, input_ips, filter_private, pc, cleaned_ips, valid_ips,
                   subnet_groups, ret>>

\* lines 246-255
Assemble ==
    /\ pc = "buckets"
    /\ next_bucket > Len(subnet_groups)
    /\ ret' = Returned(all_ips_sorted(all_cidr_ips, all_single_ips),
                       cidr_list_sorted(cidr_list))
    /\ pc' = "done"
    /\ UNCHANGED <<webvars, fn, arg, out, input_ips, filter_private, cleaned_ips, valid_ips, subnet_groups,
                   next_bucket, all_cidr_ips, all_single_ips, cidr_list>>

\* an exception of is_private_ip, is_excluded or ip_to_int leaves run
Raise ==
    /\ \/ pc = "clean" /\ filter_private
                       /\ filter_private_ips_raises(clean_input(input_ips))
       \/ pc = "exclude" /\ exclude_raises(cleaned_ips)
       \/ pc = "partition" /\ convert_raises(valid_ips)
    /\ ret' = Raised
    /\ pc' = "done"
    /\ UNCHANGED <<webvars, fn, arg, out, input_ips, filter_private, cleaned_ips, valid_ips, subnet_groups,
                   next_bucket, all_cidr_ips, all_single_ips, cidr_list>>

Next ==
    \/ FilterPrivate
    \/ FilterExcluded
    \/ ReturnEmpty
    \/ Partition
    \/ ProcessBucket
    \/ Assemble
    \/ Raise

Spec == Init /\ [][Next]_vars

---------------------------------------------------------------------------
\* The functions of the module called one at a time

runvars == <<input_ips, filter_private, pc, cleaned_ips, valid_ips,
             subnet_groups, next_bucket, all_cidr_ips, all_single_ips,
             cidr_list, ret>>

Edge == {0, 1, 127, 128, 255}

\* canonical dotted quads
CanonicalSample == {Addr(a, b, c, d) : a, b \in Edge, c \in {0, 128, 255}, d \in Edge}

\* texts that are no canonical dotted quad
OddTokens ==
    MalformedPool \cup
    { Str(<<8, 8, 8, 0, 5>>),                       \* "8.8.8.0.5"
      Str(<<1, 2, 3, 4, 5>>),                       \* "1.2.3.4.5"
      Addr(300, 1, 1, 1),                           \* "300.1.1.1"
      Addr(8, 256, 0, 1),                           \* "8.256.0.1"
      Addr(8, -1, 8, 8),                            \* "8.x.8.8"
      Str(<<8, 8>>),                                \* "8.8"
      Str(<<-1>>),                                  \* "abc"
      Tagged(Addr(8, 8, 8, 100)),                   \* "cip-8.8.8.100"
      Tagged(Addr(8, 8, 8, 256)) }                  \* "cip-8.8.8.256"

IpToIntArgs == CanonicalSample \cup OddTokens

\* integers of [0, 2^32 - 1], and one on each side of it
IntToIpArgs ==
    {<<a * 65536 + b * 256 + c, d>> : a, b \in Edge, c \in {0, 128, 255}, d \in Edge}
        \cup {<<-1, 249>>, <<16777216, 1>>}

\* the first two octets on and next to the borders of the six ranges
BorderPairs ==
    { <<9, 255>>, <<10, 0>>, <<10, 255>>, <<11, 0>>,
      <<100, 63>>, <<100, 64>>, <<100, 127>>, <<100, 128>>, <<99, 64>>, <<101, 64>>,
      <<126, 255>>, <<127, 0>>, <<127, 255>>, <<128, 0>>,
      <<169, 253>>, <<169, 254>>, <<169, 255>>, <<168, 254>>, <<170, 254>>,
      <<172, 15>>, <<172, 16>>, <<172, 31>>, <<172, 32>>, <<171, 16>>, <<173, 31>>,
      <<192, 167>>, <<192, 168>>, <<192, 169>>, <<191, 168>>, <<193, 168>>,
      <<8, 8>>, <<254, 10>> }

BorderAddrs == {Addr(p[1], p[2], c, d) : p \in BorderPairs, c \in {0, 255}, d \in {0, 255}}

IsPrivateIpArgs ==
    BorderAddrs \cup {Tagged(Addr(10, 0, 0, 1)), Str(<<10>>), Str(<<172>>), Addr(8, -1, 8, 0)}

FilterPool ==
    { Addr(10, 0, 0, 1), Addr(172, 15, 255, 255), Addr(172, 16, 0, 0),
      Addr(100, 127, 255, 255), Addr(100, 128, 0, 0), Addr(8, 8, 8, 8),
      Tagged(Addr(192, 168, 1, 10)), Tagged(Addr(8, 8, 8, 100)), Addr(8, -1, 8, 0) }

FilterPrivateIpsArgs == UNION {[1..n -> FilterPool] : n \in 0..MaxLen}

\* ascending lists: a first integer and the gaps that follow it
GapBase == <<526344, 250>>                          \* 8.8.8.250

RECURSIVE FromGaps(_, _)
FromGaps(first, gaps) ==
    IF gaps = <<>> THEN <<first>>
    ELSE <<first>> \o FromGaps(IntAdd(first, Head(gaps)), Tail(gaps))

GapLists ==
    {<<>>} \cup
    UNION {{FromGaps(GapBase, g) : g \in [1..n -> {0, 1, 2, 8, 9}]} : n \in 0..(MaxRun - 1)}

GroupByGapArgs == {[ips_int |-> l, gap_max |-> m] : l \in GapLists, m \in {1, max_gap}}

ExpandGroups0 ==
    { <<<<526344, 100>>>>,                                   \* 8.8.8.100
      <<<<526344, 100>>, <<526344, 101>>>>,
      <<<<526344, 100>>, <<526344, 108>>>>,
      <<<<526344, 100>>, <<526344, 100>>>>,                  \* twice the same
      <<<<526344, 103>>, <<526344, 100>>, <<526344, 105>>>>, \* not ascending
      <<<<526344, 1>>, <<526344, 2>>>>,                      \* right above x.0
      <<<<526344, 253>>, <<526344, 254>>>>,                  \* right below x.255
      <<<<526343, 254>>, <<526344, 1>>>>,                    \* across x.255, x.0
      <<<<526344, 100>>, <<526344, 140>>>>,                  \* 40 apart
      <<<<526344, 100>>, <<526344, 190>>>>,                  \* 90 apart
      <<<<526344, 20>>, <<526345, 30>>>>,                    \* wider than a /24
      <<<<526345, 0>>, <<526345, 3>>>>,                      \* 8.8.9.0 (of "8.8.8.256")
      <<<<0, 1>>, <<0, 2>>>>,                                \* 0.0.0.1, 0.0.0.2
      <<<<16777215, 253>>, <<16777215, 254>>>> }             \* 255.255.255.253, .254

ExpandGroupProperlyArgs ==
    {[group |-> g, fwd |-> f, bwd |-> b] :
        g \in ExpandGroups0, f \in {0, 1, 3, forward}, b \in {0, 1, 3, backward}}

CidrNetworks ==
    { Addr(8, 8, 8, 77), Addr(8, 8, 9, 200), Addr(0, 0, 0, 5),
      Addr(255, 255, 255, 250), Addr(128, 130, 7, 1), Addr(8, 8, 8, 8) }

CidrToIpsArgs ==
    {CidrText("cidr", n, p) :
        n \in CidrNetworks, p \in {-2, -1, 0, 1, 8, 16, 22, 23, 24, 25, 27, 30, 31, 32, 33, 40}}
      \cup {CidrText("cidr", n, p) :
              n \in {Addr(8, 8, 8, 256), Str(<<8, 8, 8>>), Addr(8, 8, 8, -1),
                     Tagged(Addr(8, 8, 8, 77))},
              p \in {-1, 24, 30, 33}}
      \cup {CidrText(f, n, 0) : f \in {"plain", "slashes", "badprefix"}, n \in CidrNetworks}

UnitInit ==
    /\ input_ips = <<>>
    /\ filter_private = FALSE
    /\ pc = "unit"
    /\ cleaned_ips = <<>>
    /\ valid_ips = <<>>
    /\ subnet_groups = <<>>
    /\ next_bucket = 1
    /\ all_cidr_ips = <<>>
    /\ all_single_ips = <<>>
    /\ cidr_list = <<>>
    /\ ret = Running
    /\ out = NotCalled
    /\ NoPipeline
    /\ \/ fn = "ip_to_int" /\ arg \in IpToIntArgs
       \/ fn = "int_to_ip" /\ arg \in IntToIpArgs
       \/ fn = "is_private_ip" /\ arg \in IsPrivateIpArgs
       \/ fn = "filter_private_ips" /\ arg \in FilterPrivateIpsArgs
       \/ fn = "group_by_gap" /\ arg \in GroupByGapArgs
       \/ fn = "expand_group_properly" /\ arg \in ExpandGroupProperlyArgs
       \/ fn = "cidr_to_ips" /\ arg \in CidrToIpsArgs

\* lines 5-10
CallIpToInt ==
    /\ fn = "ip_to_int" /\ out = NotCalled
    /\ out' = IF ip_to_int_raises(arg) THEN Exc ELSE Ret(ip_to_int(arg))
    /\ UNCHANGED <<webvars, fn, arg, runvars>>

\* lines 13-15
CallIntToIp ==
    /\ fn = "int_to_ip" /\ out = NotCalled
    /\ out' = Ret(int_to_ip(arg))
    /\ UNCHANGED <<webvars, fn, arg, runvars>>

\* lines 24-55
CallIsPrivateIp ==
    /\ fn = "is_private_ip" /\ out = NotCalled
    /\ out' = IF is_private_ip_raises(arg) THEN Exc ELSE Ret(is_private_ip(arg))
    /\ UNCHANGED <<webvars, fn, arg, runvars>>

\* lines 58-60
CallFilterPrivateIps ==
    /\ fn = "filter_private_ips" /\ out = NotCalled
    /\ out' = IF filter_private_ips_raises(arg) THEN Exc
              ELSE Ret(filter_private_ips(arg))
    /\ UNCHANGED <<webvars, fn, arg, runvars>>

\* lines 63-90
CallGroupByGap ==
    /\ fn = "group_by_gap" /\ out = NotCalled
    /\ out' = Ret(group_by_gap(arg.ips_int, arg.gap_max))
    /\ UNCHANGED <<webvars, fn, arg, runvars>>

\* lines 93-144
CallExpandGroupProperly ==
    /\ fn = "expand_group_properly" /\ out = NotCalled
    /\ out' = Ret(expand_group_properly(arg.group, arg.fwd, arg.bwd))
    /\ UNCHANGED <<webvars, fn, arg, runvars>>

\* lines 147-177
CallCidrToIps ==
    /\ fn = "cidr_to_ips" /\ out = NotCalled
    /\ out' = cidr_to_ips_call(arg)
    /\ UNCHANGED <<webvars, fn, arg, runvars>>

UnitNext ==
    \/ CallIpToInt
    \/ CallIntToIp
    \/ CallIsPrivateIp
    \/ CallFilterPrivateIps
    \/ CallGroupByGap
    \/ CallExpandGroupProperly
    \/ CallCidrToIps

UnitSpec == UnitInit /\ [][UnitNext]_vars

---------------------------------------------------------------------------
\* The padding loops of expand_group_properly one iteration at a time, next
\* to run step by step

PadArgs ==
    {[group |-> g, count |-> c, step |-> d] :
        g \in ExpandGroups0, c \in {0, 1, 3, forward}, d \in {-1, 1}}

\* lines 100-101 and 110-111
PadStart(a) ==
    [kind |-> "loop",
     current |-> IF a.step = -1 THEN IntAdd(IntMinOf(a.group), -1)
                 ELSE IntAdd(IntMaxOf(a.group), 1),
     ips |-> <<>>]

PadInit ==
    /\ input_ips = <<>>
    /\ filter_private = FALSE
    /\ pc = "unit"
    /\ cleaned_ips = <<>>
    /\ valid_ips = <<>>
    /\ subnet_groups = <<>>
    /\ next_bucket = 1
    /\ all_cidr_ips = <<>>
    /\ all_single_ips = <<>>
    /\ cidr_list = <<>>
    /\ ret = Running
    /\ fn = "pad"
    /\ arg \in PadArgs
    /\ out = PadStart(arg)
    /\ NoPipeline

\* the iterations made so far
PadWalked == IntSub(out.current, PadStart(arg).current) * arg.step

\* lines 102-106 and 112-116: the loop condition holds, one iteration
PadStep ==
    /\ fn = "pad" /\ out.kind = "loop"
    /\ Len(out.ips) < arg.count
    /\ PadWalked < MaxWalk
    /\ out' = [kind |-> "loop",
               current |-> PadIter(out, arg.step, Range(arg.group)).current,
               ips |-> PadIter(out, arg.step, Range(arg.group)).ips]
    /\ UNCHANGED <<webvars, fn, arg, runvars>>

\* the loop condition fails: the loop is left (line 107 reverses forward_ips)
PadExit ==
    /\ fn = "pad" /\ out.kind = "loop"
    /\ Len(out.ips) >= arg.count
    /\ out' = Ret(IF arg.step = -1 THEN Reverse(out.ips) ELSE out.ips)
    /\ UNCHANGED <<webvars, fn, arg, runvars>>

TermInit == Init \/ PadInit

TermNext ==
    \/ Next
    \/ PadStep
    \/ PadExit

\* the thread that executes a while loop goes on executing it
TermSpec == TermInit /\ [][TermNext]_vars /\ WF_vars(PadStep \/ PadExit)

---------------------------------------------------------------------------
\* The spreadsheet info-auto.xlsx and tools/exceltools.py
\*
\* A text cell is a record [pre, oct, suf]: oct is the first dotted quad of
\* digits in the text (<<>> when there is none), pre the text before it (the
\* whole text when there is no quad), suf what follows the quad as a list of
\* separators and numbers: <<"/", 24>>, <<":", 80>>, <<":", 80, "-", 82>>,
\* <<":", 80, ",", 81>>.  A status cell is a string; "" is the empty cell (NaN).
\* A sheet is the list of its rows, a row a record of its columns:
\*   subdomains  (子域名)          name (名称), host_status (host处理状态), ip (对应ip)
\*   non_cdn_ips (非CDN-IP)        name, nali_status (nali处理状态), type (类型)
\*   segments    (云IP+非云IP扩段)  name, masscan_status (masscan处理状态)
\*   ip_ports    (IP端口)          name
\*   http_all    (http汇总)        name, httpx_status (httpx处理状态)
\*   http_parsed (http解析)        name, type

Text(pre, oct, suf) == [pre |-> pre, oct |-> oct, suf |-> suf]

NoText == Text("", <<>>, <<>>)

\* the status values '处理', '云IP' and '非云IP'
Processed == "processed"
CloudIp == "cloud"
NonCloudIp == "non-cloud"

\* a row that deduplicate_append_excel adds: every column empty (line 432)
Columns ==
    [subdomains |-> [name |-> NoText, host_status |-> "", ip |-> NoText],
     non_cdn_ips |-> [name |-> NoText, nali_status |-> "", type |-> ""],
     segments |-> [name |-> NoText, masscan_status |-> ""],
     ip_ports |-> [name |-> NoText],
     http_all |-> [name |-> NoText, httpx_status |-> ""],
     http_parsed |-> [name |-> NoText, type |-> ""]]

\* the filter conditions "column!=value", "column=value", "non_blank_column"
\* and None, as lines 50-83 take them apart
Ne(column, value) == [op |-> "!=", column |-> column, value |-> value]
Eq(column, value) == [op |-> "=", column |-> column, value |-> value]
NonBlank(column) == [op |-> "non_blank", column |-> column, value |-> ""]
NoFilter == [op |-> "none", column |-> "name", value |-> ""]

\* lines 35-104: the rows the condition keeps, of them the cells of the
\* target column that are not empty, of them the first limit (0 is None)
read_excel_sheet_as_list(sheet, filter_condition, target_column, limit) ==
    LET Kept(row) ==
            /\ CASE filter_condition.op = "none" -> TRUE
                 [] filter_condition.op = "non_blank" ->
                        row[filter_condition.column] # NoText
                 [] filter_condition.op = "!=" ->
                        row[filter_condition.column] # filter_condition.value
                 [] filter_condition.op = "=" ->
                        row[filter_condition.column] = filter_condition.value
            /\ row[target_column] # NoText
        rows == SelectSeq(sheet, Kept)
        result_data == [i \in 1..Len(rows) |-> rows[i][target_column]]
    IN  IF limit > 0 THEN SubSeq(result_data, 1, Min(limit, Len(result_data)))
        ELSE result_data

\* lines 179-191: every row whose match column holds a value of the list
\* gets the status value
update_excel_status(sheet, target_list, match_column, status_column, status_value) ==
    [i \in 1..Len(sheet) |->
        IF \E j \in 1..Len(target_list) : target_list[j] = sheet[i][match_column]
        THEN [sheet[i] EXCEPT ![status_column] = status_value]
        ELSE sheet[i]]

\* lines 298-316: target_list is a list of one-entry dicts {key: val}; a row
\* gets the val of the last dict whose key it matches
update_excel_status_dict(sheet, target_list, match_column, status_column) ==
    [i \in 1..Len(sheet) |->
        LET hits == {j \in 1..Len(target_list) :
                        target_list[j].key = sheet[i][match_column]}
        IN  IF hits = {} THEN sheet[i]
            ELSE [sheet[i] EXCEPT ![status_column] =
                     target_list[CHOOSE j \in hits : \A k \in hits : k <= j].val]]

\* lines 402-438: the values of the list that the match column does not hold
\* yet, each once, as new rows at the end.  list(set - set) has the order of a
\* Python set; one order is taken
deduplicate_append_excel(sheet, target_list, match_column, new_row) ==
    LET existing_set == {sheet[i][match_column] : i \in 1..Len(sheet)} \ {NoText}
        new_data == SetToSeq(Range(target_list) \ existing_set)
    IN  sheet \o [i \in 1..Len(new_data) |->
                     [new_row EXCEPT ![match_column] = new_data[i]]]

---------------------------------------------------------------------------
\* The external tools, each as a function of what its command-line program
\* answers

\* the text up to the first ':'
BeforeColon(item) == Text(item.pre, item.oct, <<>>)

\* tools/host.py lines 18-100.  dns[s] is what `host s` prints: addr is the
\* address of the 'has address' line (NoText: no such line), alias whether
\* the output names an alias, and then canonical is the name the line starts
\* with.  unique_no_alias_ips is sorted(set(...)), here in one order
host_run(subdomains, dns) ==
    LET Resolved(s) == dns[s].addr # NoText
        found == SelectSeq(subdomains, Resolved)
        NoAlias(s) == ~dns[s].alias
        direct == SelectSeq(found, NoAlias)
    IN  [subdomainIps |->
             [i \in 1..Len(found) |->
                 [key |-> IF dns[found[i]].alias THEN dns[found[i]].canonical
                          ELSE found[i],
                  val |-> dns[found[i]].addr]],
         noCdnIPs |-> SetToSeq({dns[direct[i]].addr : i \in 1..Len(direct)})]

\* tools/nali.py lines 108-162: a line without a dotted quad is skipped, of
\* any other the quad alone is kept; cloud is the set of addresses whose
\* nali answer names a cloud provider
nali_run(ip_list, cloud) ==
    LET HasQuad(ip_line) == ip_line.oct # <<>>
        lines == SelectSeq(ip_list, HasQuad)
        valid == [i \in 1..Len(lines) |-> Text("", lines[i].oct, <<>>)]
        IsCloud(ip_clean) == ip_clean \in cloud
        NotCloud(ip_clean) == ip_clean \notin cloud
    IN  [cloud_ips |-> SelectSeq(valid, IsCloud),
         non_cloud_ips |-> SelectSeq(valid, NotCloud)]

\* main.py line 127: the first of the pair tools.cip.run(allncip) returns, with
\* filter_private left at its default (True): the steps of run in their
\* order, the value of each taken once.  The rows of type '非云IP' are rows
\* nali marked, and their names are dotted quads of digits
cip_run(allncip) ==
    CHOOSE cip \in
        { [i \in 1..Len(final_ips) |-> Text("", final_ips[i].oct, <<>>)] :
            final_ips \in
              { all_ips_sorted(acc.all_cidr_ips, acc.all_single_ips) :
                  acc \in
                    { ProcessFrom(partition(valid), 1, EmptyAcc) :
                        valid \in
                          { exclude_filter(filter_private_ips(clean_input(
                                [i \in 1..Len(allncip) |-> Str(allncip[i].oct)]))) } } } } :
        TRUE

---------------------------------------------------------------------------
\* The four stages of main.py, each on a spreadsheet bk and the answers of
\* its tool; each gives the spreadsheet it leaves and the count it returns

MasscanLimit == 10
MaxPortsPerIp == 60

Stage(bk, n) == [book |-> bk, ret |-> n]

\* main.py lines 9-58
host(bk, dns) ==
    LET subdomain == read_excel_sheet_as_list(bk.subdomains,
                         Ne("host_status", Processed), "name", 0)
    IN  IF subdomain = <<>> THEN Stage(bk, 0)
        ELSE LET hostTemp == host_run(subdomain, dns)
                 s1 == update_excel_status_dict(bk.subdomains, hostTemp.subdomainIps,
                           "name", "ip")
                 n1 == deduplicate_append_excel(bk.non_cdn_ips, hostTemp.noCdnIPs,
                           "name", Columns.non_cdn_ips)
                 s2 == update_excel_status(s1, subdomain, "name", "host_status",
                           Processed)
             IN  Stage([bk EXCEPT !.subdomains = s2, !.non_cdn_ips = n1],
                       Len(subdomain))

\* main.py lines 61-139
nali(bk, cloud) ==
    LET ips == read_excel_sheet_as_list(bk.non_cdn_ips,
                   Ne("nali_status", Processed), "name", 0)
    IN  IF ips = <<>> THEN Stage(bk, 0)
        ELSE LET r == nali_run(ips, cloud)
                 cp == r.cloud_ips
                 ncp == r.non_cloud_ips
                 n1 == update_excel_status(bk.non_cdn_ips, cp, "name", "type", CloudIp)
                 n2 == update_excel_status(n1, cp, "name", "nali_status", Processed)
                 n3 == update_excel_status(n2, ncp, "name", "type", NonCloudIp)
                 n4 == update_excel_status(n3, ncp, "name", "nali_status", Processed)
                 allcip == read_excel_sheet_as_list(n4, Eq("type", CloudIp), "name", 0)
                 g1 == deduplicate_append_excel(bk.segments, allcip, "name",
                           Columns.segments)
                 allncip == read_excel_sheet_as_list(n4, Eq("type", NonCloudIp),
                                "name", 0)
                 g2 == deduplicate_append_excel(g1, cip_run(allncip), "name",
                           Columns.segments)
             IN  Stage([bk EXCEPT !.non_cdn_ips = n4, !.segments = g2], Len(ips))

\* main.py lines 142-198; ipport is what tools.masscan.run returns
masscan(bk, ipport) ==
    LET ips == read_excel_sheet_as_list(bk.segments,
                   Ne("masscan_status", Processed), "name", MasscanLimit)
    IN  IF ips = <<>> THEN Stage(bk, 0)
        ELSE LET ip_count(ip) ==
                     Cardinality({i \in 1..Len(ipport) : BeforeColon(ipport[i]) = ip})
                 Few(item) == ip_count(BeforeColon(item)) < MaxPortsPerIp
                 filtered_ipport == SelectSeq(ipport, Few)
                 p1 == deduplicate_append_excel(bk.ip_ports, filtered_ipport, "name",
                           Columns.ip_ports)
                 g1 == update_excel_status(bk.segments, ips, "name", "masscan_status",
                           Processed)
             IN  Stage([bk EXCEPT !.ip_ports = p1, !.segments = g1], Len(ips))

\* main.py lines 239-253 for one row of IP端口: the ports of "ip:port",
\* "ip:lo-hi" and "ip:p,q"
PortsOf(item) ==
    IF Len(item.suf) = 2 THEN <<item.suf[2]>>
    ELSE IF item.suf[3] = "-"
         THEN [i \in 1..Max(item.suf[4] - item.suf[2] + 1, 0) |-> item.suf[2] + i - 1]
         ELSE <<item.suf[2], item.suf[4]>>

\* main.py lines 231 and 237-253: every port of every row behind the subdomain
\* that dict(zip(canHostIP, canHostSubdomain)) gives for the row's ip, or
\* behind the ip itself
RECURSIVE SubdomainPorts(_, _, _, _)
SubdomainPorts(ipport, i, canHostIP, canHostSubdomain) ==
    IF i > Len(ipport) THEN <<>>
    ELSE LET ip == BeforeColon(ipport[i])
             at == {j \in 1..Len(canHostIP) : canHostIP[j] = ip}
             subdomain == IF at = {} THEN ip
                          ELSE canHostSubdomain[CHOOSE j \in at : \A k \in at : k <= j]
             ports == PortsOf(ipport[i])
         IN  [p \in 1..Len(ports) |->
                 Text(subdomain.pre, subdomain.oct, <<":", ports[p]>>)]
             \o SubdomainPorts(ipport, i + 1, canHostIP, canHostSubdomain)

\* main.py lines 209-266: the sheet http汇总 with the subdomains and the
\* subdomain ports added, and its rows not yet processed
whatweb_urls(bk) ==
    LET canHostSubdomain == read_excel_sheet_as_list(bk.subdomains, NonBlank("ip"),
                                "name", 0)
        canHostIP == read_excel_sheet_as_list(bk.subdomains, NonBlank("ip"), "ip", 0)
        h1 == deduplicate_append_excel(bk.http_all, canHostSubdomain, "name",
                  Columns.http_all)
        ipport == read_excel_sheet_as_list(bk.ip_ports, NoFilter, "name", 0)
        ipToSubdomainPort == SubdomainPorts(ipport, 1, canHostIP, canHostSubdomain)
        h2 == deduplicate_append_excel(h1, ipToSubdomainPort, "name", Columns.http_all)
    IN  [http_all |-> h2,
         urls |-> read_excel_sheet_as_list(h2, Ne("httpx_status", Processed), "name", 0)]

\* main.py lines 201-298; status[u] is the status whatweb reports for u
whatweb(bk, status) ==
    LET h2 == whatweb_urls(bk).http_all
        urls == whatweb_urls(bk).urls
    IN  IF urls = <<>> THEN Stage([bk EXCEPT !.http_all = h2], 0)
        ELSE LET results == [i \in 1..Len(urls) |->
                                [key |-> urls[i], val |-> status[urls[i]]]]
                 resultUrl == [i \in 1..Len(results) |-> results[i].key]
                 q1 == deduplicate_append_excel(bk.http_parsed, resultUrl, "name",
                           Columns.http_parsed)
                 q2 == update_excel_status_dict(q1, results, "name", "type")
                 h3 == update_excel_status(h2, urls, "name", "httpx_status", Processed)
             IN  Stage([bk EXCEPT !.http_all = h3, !.http_parsed = q2], Len(urls))

---------------------------------------------------------------------------
\* The spreadsheets and the tool answers explored

Name(s) == Text(s, <<>>, <<>>)

Quad(a, b, c, d) == Text("", <<a, b, c, d>>, <<>>)

WithPort(t, p) == Text(t.pre, t.oct, <<":", p>>)

EmptyBook ==
    [subdomains |-> <<>>, non_cdn_ips |-> <<>>, segments |-> <<>>,
     ip_ports |-> <<>>, http_all |-> <<>>, http_parsed |-> <<>>]

\* a row of a sheet that holds a name and nothing else
Row(sheet_name, name) == [Columns[sheet_name] EXCEPT !.name = name]

\* the spreadsheet as the user leaves it: names filled in, and status
\* columns that are empty or as an earlier run of the pipeline left them
Books ==
    { EmptyBook,
      [EmptyBook EXCEPT !.subdomains = <<Row("subdomains", Name("a.example.com"))>>],
      [EmptyBook EXCEPT !.subdomains = <<Row("subdomains", Name("a.example.com")),
                                         Row("subdomains", Name("b.example.com"))>>],
      \* two neighbours, which tools/cip.py pads to 22 addresses
      [EmptyBook EXCEPT !.non_cdn_ips = <<Row("non_cdn_ips", Quad(8, 8, 8, 100)),
                                          Row("non_cdn_ips", Quad(8, 8, 8, 101))>>],
      \* "8.8.8.0/24"
      [EmptyBook EXCEPT !.non_cdn_ips =
          <<Row("non_cdn_ips", Text("", <<8, 8, 8, 0>>, <<"/", 24>>))>>],
      \* "n/a" and "8.8.8.40"
      [EmptyBook EXCEPT !.non_cdn_ips = <<Row("non_cdn_ips", Name("n/a")),
                                          Row("non_cdn_ips", Quad(8, 8, 8, 40))>>],
      \* a resolved subdomain and the rows "8.8.8.100:80-81", "8.8.8.40:22,80"
      [EmptyBook EXCEPT
          !.subdomains = <<[name |-> Name("a.example.com"), host_status |-> Processed,
                            ip |-> Quad(8, 8, 8, 100)]>>,
          !.ip_ports = <<Row("ip_ports", Text("", <<8, 8, 8, 100>>, <<":", 80, "-", 81>>)),
                         Row("ip_ports", Text("", <<8, 8, 8, 40>>, <<":", 22, ",", 80>>))>>],
      \* everything processed already
      [EmptyBook EXCEPT
          !.subdomains = <<[name |-> Name("a.example.com"), host_status |-> Processed,
                            ip |-> NoText]>>,
          !.non_cdn_ips = <<[name |-> Quad(8, 8, 8, 40), nali_status |-> Processed,
                             type |-> CloudIp]>>,
          !.segments = <<[name |-> Quad(8, 8, 8, 40), masscan_status |-> Processed]>>] }

\* what `host s` may print: nothing, an address, an alias with an address
DnsAnswers ==
    { [addr |-> NoText, alias |-> FALSE, canonical |-> NoText],
      [addr |-> Quad(8, 8, 8, 100), alias |-> FALSE, canonical |-> NoText],
      [addr |-> Quad(8, 8, 8, 101), alias |-> FALSE, canonical |-> NoText],
      [addr |-> Quad(8, 8, 4, 4), alias |-> TRUE, canonical |-> Name("cdn.example.net")] }

\* the answers of `host` for the subdomains that host() reads
HostAnswers(bk) ==
    [Range(read_excel_sheet_as_list(bk.subdomains, Ne("host_status", Processed),
               "name", 0)) -> DnsAnswers]

\* the sets of addresses that nali may call cloud addresses, of those nali()
\* reads
NaliAnswers(bk) ==
    LET ips == read_excel_sheet_as_list(bk.non_cdn_ips, Ne("nali_status", Processed),
                   "name", 0)
    IN  SUBSET {Text("", ips[i].oct, <<>>) : i \in {j \in 1..Len(ips) : ips[j].oct # <<>>}}

\* the ports that are open
OpenPorts == {WithPort(Quad(8, 8, 8, 100), 80), WithPort(Quad(8, 8, 8, 101), 443)}

\* what masscan may report for the targets masscan() reads: open ports of the
\* targets, all of them or some
MasscanAnswers(bk) ==
    LET ips == read_excel_sheet_as_list(bk.segments, Ne("masscan_status", Processed),
                   "name", MasscanLimit)
    IN  {SetToSeq(S) : S \in SUBSET {p \in OpenPorts : BeforeColon(p) \in Range(ips)}}

\* what whatweb may report for the rows whatweb() reads: a status code, or
\* nothing it could parse
WhatwebAnswers(bk) == [Range(whatweb_urls(bk).urls) -> {"200", "Unknown"}]

---------------------------------------------------------------------------
\* main.main(): python main.py.  thread["main"] holds where main() is (pc),
\* its processed_count, and what the stages of the round returned so far.
\* iteration (lines 315, 329) only numbers the lines printed and is left out

NoRun ==
    /\ input_ips = <<>>
    /\ filter_private = FALSE
    /\ pc = "unit"
    /\ cleaned_ips = <<>>
    /\ valid_ips = <<>>
    /\ subnet_groups = <<>>
    /\ next_bucket = 1
    /\ all_cidr_ips = <<>>
    /\ all_single_ips = <<>>
    /\ cidr_list = <<>>
    /\ ret = Running

\* line 319
RoundStart == [pc |-> "host", processed_count |-> 0, returned |-> <<>>]

\* processed_count += stage()
After(t, next_pc, stage, n) ==
    [pc |-> next_pc,
     processed_count |-> t.processed_count + n,
     returned |-> Append(t.returned, [stage |-> stage, ret |-> n])]

MainInit ==
    /\ NoRun
    /\ fn = "main"
    /\ arg = <<>>
    /\ out = NotCalled
    /\ book \in Books
    /\ is_running = FALSE
    /\ request = <<>>
    /\ thread = [t \in {"main"} |-> RoundStart]

\* line 320
MainHost ==
    /\ fn = "main" /\ thread["main"].pc = "host"
    /\ \E dns \in HostAnswers(book) :
          /\ book' = host(book, dns).book
          /\ thread' = [thread EXCEPT !["main"] =
                           After(@, "nali", "host", host(book, dns).ret)]
    /\ UNCHANGED <<is_running, request, fn, arg, out, runvars>>

\* line 321
MainNali ==
    /\ fn = "main" /\ thread["main"].pc = "nali"
    /\ \E cloud \in NaliAnswers(book) :
          /\ book' = nali(book, cloud).book
          /\ thread' = [thread EXCEPT !["main"] =
                           After(@, "masscan", "nali", nali(book, cloud).ret)]
    /\ UNCHANGED <<is_running, request, fn, arg, out, runvars>>

\* line 322
MainMasscan ==
    /\ fn = "main" /\ thread["main"].pc = "masscan"
    /\ \E ipport \in MasscanAnswers(book) :
          /\ book' = masscan(book, ipport).book
          /\ thread' = [thread EXCEPT !["main"] =
                           After(@, "whatweb", "masscan", masscan(book, ipport).ret)]
    /\ UNCHANGED <<is_running, request, fn, arg, out, runvars>>

\* line 323
MainWhatweb ==
    /\ fn = "main" /\ thread["main"].pc = "whatweb"
    /\ \E status \in WhatwebAnswers(book) :
          /\ book' = whatweb(book, status).book
          /\ thread' = [thread EXCEPT !["main"] =
                           After(@, "check", "whatweb", whatweb(book, status).ret)]
    /\ UNCHANGED <<is_running, request, fn, arg, out, runvars>>

\* line 325
all_done_but_one(processed_count) == processed_count <= 1

all_done(processed_count) == processed_count = 0

\* lines 325-327
MainBreak ==
    /\ fn = "main" /\ thread["main"].pc = "check"
    /\ all_done(thread["main"].processed_count)
    /\ thread' = [thread EXCEPT !["main"].pc = "done"]
    /\ UNCHANGED <<book, is_running, request, fn, arg, out, runvars>>

\* lines 325, 329 and 316-319
MainAgain ==
    /\ fn = "main" /\ thread["main"].pc = "check"
    /\ ~all_done(thread["main"].processed_count)
    /\ thread' = [thread EXCEPT !["main"] = RoundStart]
    /\ UNCHANGED <<book, is_running, request, fn, arg, out, runvars>>

MainNext ==
    \/ MainHost
    \/ MainNali
    \/ MainMasscan
    \/ MainWhatweb
    \/ MainBreak
    \/ MainAgain

MainSpec == MainInit /\ [][MainNext]_vars

---------------------------------------------------------------------------
\* webUI.py with task_manager.py: the requests /api/start_task and
\* /api/stop_task, each handled in a thread of the server, and the threads
\* that TaskManager.run_main starts.  request[q] is where the handler of
\* request q is and what it answered; thread[r] is the run_task thread that
\* start request r started.  A stage call of a thread is one step: the
\* reads and writes of the spreadsheet file by two threads are not
\* interleaved any finer.  iteration (lines 80, 120) only numbers the log
\* lines and is left out

StartRequests == {"start1", "start2"}

StopRequests == {"stop1"}

WebBooks ==
    { EmptyBook,
      [EmptyBook EXCEPT !.subdomains = <<Row("subdomains", Name("a.example.com"))>>] }

NotStarted == [pc |-> "none", processed_count |-> 0, returned |-> <<>>]

Arrived == [pc |-> "new", response |-> ""]

Answered(response) == [pc |-> "done", response |-> response]

WebInit ==
    /\ NoRun
    /\ fn = "webUI"
    /\ arg = <<>>
    /\ out = NotCalled
    /\ book \in WebBooks
    /\ is_running = FALSE
    /\ thread = [r \in StartRequests |-> NotStarted]
    /\ request = [q \in StartRequests \cup StopRequests |-> Arrived]

\* webUI.py lines 143-144
StartRejected ==
    \E r \in StartRequests :
        /\ fn = "webUI" /\ request[r].pc = "new"
        /\ is_running
        /\ request' = [request EXCEPT ![r] = Answered("already running")]
        /\ UNCHANGED <<book, is_running, thread, fn, arg, out, runvars>>

\* webUI.py line 143, is_running read as False
StartAccepted ==
    \E r \in StartRequests :
        /\ fn = "webUI" /\ request[r].pc = "new"
        /\ ~is_running
        /\ request' = [request EXCEPT ![r].pc = "run_main"]
        /\ UNCHANGED <<book, is_running, thread, fn, arg, out, runvars>>

\* webUI.py lines 146-147 with task_manager.py lines 135-137: the thread is
\* started, and run_main returns
StartRunMain ==
    \E r \in StartRequests :
        /\ fn = "webUI" /\ request[r].pc = "run_main"
        /\ thread' = [thread EXCEPT ![r].pc = "begin"]
        /\ request' = [request EXCEPT ![r] = Answered("started")]
        /\ UNCHANGED <<book, is_running, fn, arg, out, runvars>>

\* webUI.py lines 153-154
StopRejected ==
    \E s \in StopRequests :
        /\ fn = "webUI" /\ request[s].pc = "new"
        /\ ~is_running
        /\ request' = [request EXCEPT ![s] = Answered("not running")]
        /\ UNCHANGED <<book, is_running, thread, fn, arg, out, runvars>>

\* webUI.py line 153, is_running read as True
StopAccepted ==
    \E s \in StopRequests :
        /\ fn = "webUI" /\ request[s].pc = "new"
        /\ is_running
        /\ request' = [request EXCEPT ![s].pc = "stop_main"]
        /\ UNCHANGED <<book, is_running, thread, fn, arg, out, runvars>>

\* webUI.py lines 156-157 with task_manager.py lines 139-144; current_process
\* is None throughout
StopMain ==
    \E s \in StopRequests :
        /\ fn = "webUI" /\ request[s].pc = "stop_main"
        /\ is_running' = FALSE
        /\ request' = [request EXCEPT ![s] = Answered("stopped")]
        /\ UNCHANGED <<book, thread, fn, arg, out, runvars>>

\* task_manager.py lines 75-80
TaskBegin ==
    \E t \in StartRequests :
        /\ fn = "webUI" /\ thread[t].pc = "begin"
        /\ is_running' = TRUE
        /\ thread' = [thread EXCEPT ![t].pc = "while"]
        /\ UNCHANGED <<book, request, fn, arg, out, runvars>>

\* task_manager.py lines 82-85, is_running read as True
TaskRound ==
    \E t \in StartRequests :
        /\ fn = "webUI" /\ thread[t].pc = "while"
        /\ is_running
        /\ thread' = [thread EXCEPT ![t] = RoundStart]
        /\ UNCHANGED <<book, is_running, request, fn, arg, out, runvars>>

\* task_manager.py line 82, is_running read as False
TaskLeave ==
    \E t \in StartRequests :
        /\ fn = "webUI" /\ thread[t].pc = "while"
        /\ ~is_running
        /\ thread' = [thread EXCEPT ![t].pc = "finally"]
        /\ UNCHANGED <<book, is_running, request, fn, arg, out, runvars>>

\* task_manager.py lines 88-93
TaskHost ==
    \E t \in StartRequests :
        /\ fn = "webUI" /\ thread[t].pc = "host"
        /\ \E dns \in HostAnswers(book) :
              /\ book' = host(book, dns).book
              /\ thread' = [thread EXCEPT ![t] =
                               After(@, "nali", "host", host(book, dns).ret)]
        /\ UNCHANGED <<is_running, request, fn, arg, out, runvars>>

\* task_manager.py lines 95-100
TaskNali ==
    \E t \in StartRequests :
        /\ fn = "webUI" /\ thread[t].pc = "nali"
        /\ \E cloud \in NaliAnswers(book) :
              /\ book' = nali(book, cloud).book
              /\ thread' = [thread EXCEPT ![t] =
                               After(@, "masscan", "nali", nali(book, cloud).ret)]
        /\ UNCHANGED <<is_running, request, fn, arg, out, runvars>>

\* task_manager.py lines 102-107
TaskMasscan ==
    \E t \in StartRequests :
        /\ fn = "webUI" /\ thread[t].pc = "masscan"
        /\ \E ipport \in MasscanAnswers(book) :
              /\ book' = masscan(book, ipport).book
              /\ thread' = [thread EXCEPT ![t] =
                               After(@, "httpx", "masscan", masscan(book, ipport).ret)]
        /\ UNCHANGED <<is_running, request, fn, arg, out, runvars>>

\* task_manager.py lines 109-114: main.py defines host, nali, masscan, whatweb
\* and main, and no httpx; the lookup main.httpx raises AttributeError, which
\* line 113 catches and logs
TaskHttpx ==
    \E t \in StartRequests :
        /\ fn = "webUI" /\ thread[t].pc = "httpx"
        /\ thread' = [thread EXCEPT ![t].pc = "check"]
        /\ UNCHANGED <<book, is_running, request, fn, arg, out, runvars>>

\* task_manager.py lines 116-118
TaskBreak ==
    \E t \in StartRequests :
        /\ fn = "webUI" /\ thread[t].pc = "check"
        /\ thread[t].processed_count = 0
        /\ thread' = [thread EXCEPT ![t].pc = "finally"]
        /\ UNCHANGED <<book, is_running, request, fn, arg, out, runvars>>

\* task_manager.py lines 116 and 120
TaskGoOn ==
    \E t \in StartRequests :
        /\ fn = "webUI" /\ thread[t].pc = "check"
        /\ thread[t].processed_count # 0
        /\ thread' = [thread EXCEPT ![t].pc = "stopped?"]
        /\ UNCHANGED <<book, is_running, request, fn, arg, out, runvars>>

\* task_manager.py lines 123-125
TaskStopped ==
    \E t \in StartRequests :
        /\ fn = "webUI" /\ thread[t].pc = "stopped?"
        /\ ~is_running
        /\ thread' = [thread EXCEPT ![t].pc = "finally"]
        /\ UNCHANGED <<book, is_running, request, fn, arg, out, runvars>>

\* task_manager.py line 123, is_running read as True: back to line 82
TaskAgain ==
    \E t \in StartRequests :
        /\ fn = "webUI" /\ thread[t].pc = "stopped?"
        /\ is_running
        /\ thread' = [thread EXCEPT ![t].pc = "while"]
        /\ UNCHANGED <<book, is_running, request, fn, arg, out, runvars>>

\* task_manager.py lines 127-132: the thread ends
TaskFinally ==
    \E t \in StartRequests :
        /\ fn = "webUI" /\ thread[t].pc = "finally"
        /\ is_running' = FALSE
        /\ thread' = [thread EXCEPT ![t].pc = "dead"]
        /\ UNCHANGED <<book, request, fn, arg, out, runvars>>

WebNext ==
    \/ StartRejected
    \/ StartAccepted
    \/ StartRunMain
    \/ StopRejected
    \/ StopAccepted
    \/ StopMain
    \/ TaskBegin
    \/ TaskRound
    \/ TaskLeave
    \/ TaskHost
    \/ TaskNali
    \/ TaskMasscan
    \/ TaskHttpx
    \/ TaskBreak
    \/ TaskGoOn
    \/ TaskStopped
    \/ TaskAgain
    \/ TaskFinally

WebSpec == WebInit /\ [][WebNext]_vars

---------------------------------------------------------------------------
\* Vocabulary of the properties

Done == pc = "done"

HasReturned == pc = "done" /\ ret.kind = "return"

\* a token that is a well-formed address, with or without the 'cip-' tag
WellFormed(tok) == Len(tok.oct) = 4 /\ \A i \in 1..4 : tok.oct[i] \in 0..255

InputWellFormed == \A i \in 1..Len(input_ips) : WellFormed(input_ips[i])

\* the 32-bit value of a dotted quad, as <<value >> 8, value & 0xFF>>
Value32(text) ==
    <<text.oct[1] * 65536 + text.oct[2] * 256 + text.oct[3], text.oct[4]>>

\* the six reserved ranges
Reserved(text) ==
    LET o == text.oct
    IN  \/ o[1] \in {10, 127}
        \/ o[1] = 172 /\ o[2] \in 16..31
        \/ o[1] = 192 /\ o[2] = 168
        \/ o[1] = 169 /\ o[2] = 254
        \/ o[1] = 100 /\ o[2] \in 64..127

LastOctetExcluded(text) == text.oct[Len(text.oct)] \in {0, 255}

\* the Clusters and Singletons of the buckets run has built
ClustersOf(b) == Range(group_by_gap(subnet_groups[b].ips, max_gap).groups)
SingletonsOf(b) == Range(group_by_gap(subnet_groups[b].ips, max_gap).singles)
AllClusters == UNION {ClustersOf(b) : b \in 1..Len(subnet_groups)}
AllSingletons == UNION {SingletonsOf(b) : b \in 1..Len(subnet_groups)}

\* the step-by-step run and the function run agree
StepwiseIsRun == pc = "done" => ret = run(input_ips, filter_private)

---------------------------------------------------------------------------
\* C1 (coverage): every member of every Cluster formed inside run appears in
\* the address list run returns.  Stated on lists of well-formed addresses.
C1_Coverage ==
    (HasReturned /\ InputWellFormed) =>
        \A g \in AllClusters : \A x \in Range(g) : int_to_ip(x) \in Range(ret.ips)

\* C2 (private filter): with filter_private, no returned address and no
\* network address of a returned CIDR lies in one of the six reserved ranges.
\* Stated on lists of well-formed addresses.
C2_NoReservedOutput ==
    (HasReturned /\ filter_private /\ InputWellFormed) =>
        /\ \A a \in Range(ret.ips) : ~Reserved(a)
        /\ \A c \in Range(ret.cidrs) : ~Reserved(c.network)

\* C3 (exclusion): no address of the returned address list has last octet 0
\* or 255, whatever the input list.
C3_NoExcludedOutput ==
    HasReturned => \A a \in Range(ret.ips) : ~LastOctetExcluded(a)

\* C4 (order independence): every permutation of the input list makes run
\* return the same address list and the same CIDR list, for both values of
\* filter_private.
C4_OrderIndependent ==
    Done => \A p \in Perms(input_ips) : run(p, filter_private) = ret

C4_Witness ==
    /\ HasReturned /\ InputWellFormed
    /\ Len(input_ips) >= 3
    /\ IntLess(Value32(input_ips[Len(input_ips)]), Value32(input_ips[1]))
    /\ ret.cidrs # <<>>
    /\ AllSingletons # {}

\* C5 (idempotence, as claimed): without the private filter, run applied to
\* the address list it returned returns that address list again.
C5_Idempotent ==
    (HasReturned /\ ~filter_private /\ InputWellFormed) =>
        run(ret.ips, FALSE).ips = ret.ips

\* C5 (amended): the same, for lists of well-formed addresses among which run
\* finds no Cluster.
C5_IdempotentWithoutCluster ==
    (HasReturned /\ ~filter_private /\ InputWellFormed /\ ret.cidrs = <<>>) =>
        /\ run(ret.ips, FALSE).kind = "return"
        /\ run(ret.ips, FALSE).ips = ret.ips

C5_Witness ==
    /\ HasReturned /\ ~filter_private /\ InputWellFormed
    /\ ret.cidrs = <<>>
    /\ Len(ret.ips) >= 2

\* C6 (one block around a single Cluster): when the surviving addresses are
\* one Cluster of one /24, run returns exactly one CIDR block and the
\* addresses materialized from it start below the smallest and end above the
\* largest address of the Cluster.
C6_BlockSpansCluster ==
    (HasReturned /\ InputWellFormed /\ Len(subnet_groups) = 1
       /\ Cardinality(AllClusters) = 1 /\ AllSingletons = {}) =>
        /\ Len(ret.cidrs) = 1
        /\ ret.ips # <<>>
        /\ \A g \in AllClusters :
              /\ IntLess(Value32(ret.ips[1]), IntMinOf(g))
              /\ IntLess(IntMaxOf(g), Value32(ret.ips[Len(ret.ips)]))

\* C7 (singletons): every Singleton appears as its dotted quad in the
\* returned address list; and when no bucket yields a Cluster, run returns
\* the surviving addresses in ascending order, each once, and no CIDR.
C7_SingletonsKept ==
    HasReturned =>
        /\ \A x \in AllSingletons :
              \E i \in 1..Len(ret.ips) : Value32(ret.ips[i]) = x /\ ~ret.ips[i].cip
        /\ AllClusters = {} =>
              /\ ret.cidrs = <<>>
              /\ {Value32(ret.ips[i]) : i \in 1..Len(ret.ips)}
                     = {ip_to_int(valid_ips[i]) : i \in 1..Len(valid_ips)}
              /\ \A i \in 1..Len(ret.ips) : WellFormed(ret.ips[i]) /\ ~ret.ips[i].cip
              /\ \A i \in 1..(Len(ret.ips) - 1) :
                     IntLess(Value32(ret.ips[i]), Value32(ret.ips[i + 1]))

C7_Witness ==
    /\ HasReturned /\ InputWellFormed
    /\ AllClusters = {}
    /\ Len(ret.ips) >= 2
    /\ IntLess(Value32(input_ips[Len(input_ips)]), Value32(input_ips[1]))

\* a token the two filters drop: parsable, and private (with the filter on)
\* or ending in 0 or 255
Dropped(tok) ==
    /\ \A i \in 1..Len(tok.oct) : tok.oct[i] >= 0
    /\ Len(tok.oct) >= 2
    /\ (filter_private /\ Reserved(tok)) \/ LastOctetExcluded(tok)

AllDropped == \A i \in 1..Len(input_ips) : Dropped(input_ips[i])

\* C8 (nothing remains): when the private filter and the exclusion filter
\* leave no address, run returns ([], []) and has partitioned, clustered and
\* expanded nothing.
C8_EmptyWhenNothingRemains ==
    AllDropped =>
        /\ pc \notin {"partition", "buckets"}
        /\ subnet_groups = <<>> /\ cidr_list = <<>>
        /\ all_cidr_ips = <<>> /\ all_single_ips = <<>>
        /\ Done => ret = Returned(<<>>, <<>>)

C8_Witness ==
    /\ Done /\ AllDropped /\ filter_private
    /\ \E i \in 1..Len(input_ips) : Reserved(input_ips[i])
    /\ \E i \in 1..Len(input_ips) : LastOctetExcluded(input_ips[i])

\* C9 (sorted output): the returned address list is strictly ascending by
\* 32-bit value, and the returned CIDR list is ascending by the value of the
\* network component.
C9_SortedOutput ==
    HasReturned =>
        /\ \A i \in 1..(Len(ret.ips) - 1) :
              IntLess(Value32(ret.ips[i]), Value32(ret.ips[i + 1]))
        /\ \A i \in 1..(Len(ret.cidrs) - 1) :
              IntLeq(Value32(ret.cidrs[i].network), Value32(ret.cidrs[i + 1].network))

C9_Witness ==
    /\ HasReturned
    /\ Len(ret.cidrs) >= 2
    /\ Len(ret.ips) >= 2
    /\ IntLess(Value32(input_ips[Len(input_ips)]), Value32(input_ips[1]))

\* the well-formed tokens of a list, in order
WellFormedOnly(ips) == SelectSeq(ips, WellFormed)

\* C10 (malformed tokens are skipped): run returns, and returns what it
\* returns for the well-formed tokens of its input alone.
C10_MalformedSkipped ==
    Done =>
        /\ ret.kind = "return"
        /\ ret = run(WellFormedOnly(input_ips), filter_private)

---------------------------------------------------------------------------
\* Vocabulary of the properties of single calls

\* the call of function f has been made
Called(f) == fn = f /\ out.kind # "pending"

\* C11 (parsing rejects what is no address): ip_to_int returns an integer
\* exactly for the tokens that, the 'cip-' tag apart, are four fields each a
\* number of 0..255, and raises an error for every other token.
C11_ParseRejectsMalformed ==
    Called("ip_to_int") => (out.kind = "return" <=> WellFormed(arg))

\* the prefix length of the text is malformed or outside 0..32
BadPrefix(c) ==
    \/ c.form \in {"badprefix", "slashes"}
    \/ c.form = "cidr" /\ c.prefix_len \notin 0..32

\* C12 (bad prefix lengths fail): for a CIDR string whose prefix length is
\* malformed, negative or above 32, cidr_to_ips raises an error or returns
\* the empty list, and enumerates no address.
C12_BadPrefixFails ==
    (Called("cidr_to_ips") /\ BadPrefix(arg)) =>
        \/ out.kind = "raise"
        \/ out.kind = "return" /\ out.val = <<>>

\* the text is "a.b.c.d/p" with a.b.c.d a canonical dotted quad and p in 0..32
ProperCidr(c) ==
    /\ c.form = "cidr"
    /\ WellFormed(c.network) /\ ~c.network.cip
    /\ c.prefix_len \in 0..32

\* the value of a.b.c.d with its 32 - p low bits cleared
NetworkOf(c) ==
    LET v == Value32(c.network)
        h == 32 - c.prefix_len
    IN  IF h <= 8 THEN <<v[1], (v[2] \div 2^h) * 2^h>>
        ELSE <<(v[1] \div 2^(h - 8)) * 2^(h - 8), 0>>

\* NetworkOf(c) + 2^(32 - p) - 1: the 32 - p low bits set
BroadcastOf(c) ==
    LET n == NetworkOf(c)
        h == 32 - c.prefix_len
    IN  IF h <= 8 THEN <<n[1], n[2] + 2^h - 1>>
        ELSE <<n[1] + 2^(h - 8) - 1, 255>>

\* the values strictly between network and broadcast with last octet neither
\* 0 nor 255, among the first MaxEnum values above the network
HostsOf(c) ==
    {n \in {IntAdd(NetworkOf(c), k) : k \in 1..MaxEnum} :
        IntLess(n, BroadcastOf(c)) /\ n[2] \notin {0, 255}}

\* C13 (enumeration of a block): for a.b.c.d/p with p in 0..32, cidr_to_ips
\* returns, in ascending order and as canonical dotted quads, exactly the
\* addresses strictly between network and broadcast whose last octet is
\* neither 0 nor 255; network and broadcast are not among them, and a /31 or
\* /32 gives the empty list.  (Blocks longer than MaxEnum are compared on
\* their first MaxEnum values.)
C13_BlockEnumeration ==
    (Called("cidr_to_ips") /\ ProperCidr(arg)) =>
        /\ out.kind = "return"
        /\ \A i \in 1..Len(out.val) : WellFormed(out.val[i]) /\ ~out.val[i].cip
        /\ \A i \in 1..(Len(out.val) - 1) :
              IntLess(Value32(out.val[i]), Value32(out.val[i + 1]))
        /\ {Value32(out.val[i]) : i \in 1..Len(out.val)} = HostsOf(arg)
        /\ \A i \in 1..Len(out.val) :
              Value32(out.val[i]) \notin {NetworkOf(arg), BroadcastOf(arg)}
        /\ arg.prefix_len \in {31, 32} => out.val = <<>>

C13_Witness ==
    /\ Called("cidr_to_ips") /\ ProperCidr(arg)
    /\ out.kind = "return" /\ out.complete
    /\ arg.prefix_len = 30
    /\ Value32(arg.network) # NetworkOf(arg)
    /\ Len(out.val) = 2

\* the least and the greatest integer of a non-empty set of integers
LeastOf(S) == CHOOSE m \in S : \A x \in S : IntLeq(m, x)
GreatestOf(S) == CHOOSE m \in S : \A x \in S : IntLeq(x, m)

\* the number of binary digits of n >= 0
BitLen(n) == CHOOSE k \in 0..32 : (n = 0 /\ k = 0) \/ (k > 0 /\ 2^(k - 1) <= n /\ n < 2^k)

Clamp(x, lo, hi) == IF x < lo THEN lo ELSE IF x > hi THEN hi ELSE x

\* max(all_ips) - min(all_ips) of an expansion result
SpanOf(r) ==
    LET lo == LeastOf(Range(r.ips_int))
        hi == GreatestOf(Range(r.ips_int))
    IN  (hi[1] - lo[1]) * 256 + (hi[2] - lo[2])

\* C14 (the CIDR of an expanded group): the CIDR expand_group_properly
\* returns is the dotted quad of min(all_ips) followed by '/' and
\* max(24, min(32, 32 - bit_length(max(all_ips) - min(all_ips)))); the network
\* part is that minimum itself, aligned or not, and the prefix length lies in
\* 24..32.
C14_CidrOfExpansion ==
    Called("expand_group_properly") =>
        LET r == out.val
            lo == LeastOf(Range(r.ips_int))
        IN  /\ r.cidr.prefix_len = Clamp(32 - BitLen(SpanOf(r)), 24, 32)
            /\ r.cidr.prefix_len \in 24..32
            /\ WellFormed(r.cidr.network) /\ ~r.cidr.network.cip
            /\ Value32(r.cidr.network) = <<lo[1] % 16777216, lo[2]>>

C14_Witness ==
    /\ Called("expand_group_properly")
    /\ 32 - BitLen(SpanOf(out.val)) < 24
    /\ out.val.cidr.prefix_len = 24
    /\ out.val.cidr.network.oct[4] % 2 = 1

\* the six blocks, each from its first to its last address
PrivateBlocks ==
    { <<Addr(10, 0, 0, 0), Addr(10, 255, 255, 255)>>,        \* 10.0.0.0/8
      <<Addr(172, 16, 0, 0), Addr(172, 31, 255, 255)>>,      \* 172.16.0.0/12
      <<Addr(192, 168, 0, 0), Addr(192, 168, 255, 255)>>,    \* 192.168.0.0/16
      <<Addr(127, 0, 0, 0), Addr(127, 255, 255, 255)>>,      \* 127.0.0.0/8
      <<Addr(169, 254, 0, 0), Addr(169, 254, 255, 255)>>,    \* 169.254.0.0/16
      <<Addr(100, 64, 0, 0), Addr(100, 127, 255, 255)>> }    \* 100.64.0.0/10

InPrivateBlock(text) ==
    \E b \in PrivateBlocks :
        IntLeq(Value32(b[1]), Value32(text)) /\ IntLeq(Value32(text), Value32(b[2]))

NotInPrivateBlock(text) == ~InPrivateBlock(text)

\* C15 (private ranges): for a well-formed address is_private_ip returns
\* true exactly when the address lies in one of the six blocks, the
\* neighbours of their borders being outside; filter_private_ips returns the
\* addresses of its list that lie in none, in the order of the list.
C15_PrivateRanges ==
    /\ (Called("is_private_ip") /\ WellFormed(arg)) =>
          out = Ret(InPrivateBlock(arg))
    /\ (Called("filter_private_ips") /\ \A i \in 1..Len(arg) : WellFormed(arg[i])) =>
          out = Ret(SelectSeq(arg, NotInPrivateBlock))

C15_Witness ==
    /\ Called("filter_private_ips")
    /\ Len(arg) = 2
    /\ arg[1] = Addr(172, 16, 0, 0)
    /\ arg[2] = Addr(172, 15, 255, 255)
    /\ out = Ret(<<arg[2]>>)

\* an integer of [0, 2^32 - 1]
In32(n) == n[1] \in 0..16777215 /\ n[2] \in 0..255

\* a canonical dotted quad
Canonical(text) == WellFormed(text) /\ ~text.cip

\* C16 (round trip): ip_to_int(int_to_ip(n)) = n for every integer n of
\* [0, 2^32 - 1], and int_to_ip(ip_to_int(s)) = s for every canonical dotted
\* quad s.
C16_RoundTrip ==
    /\ (Called("int_to_ip") /\ In32(arg)) =>
          /\ Canonical(out.val)
          /\ ~ip_to_int_raises(out.val)
          /\ ip_to_int(out.val) = arg
    /\ (Called("ip_to_int") /\ Canonical(arg)) =>
          /\ out.kind = "return"
          /\ In32(out.val)
          /\ int_to_ip(out.val) = arg

C16_Witness ==
    /\ Called("int_to_ip")
    /\ arg = <<16744703, 1>>
    /\ out = Ret(Addr(255, 128, 255, 1))

\* a token that reads as an address of one of the six reserved ranges
IsPrivateAddress(tok) ==
    /\ \A i \in 1..Len(tok.oct) : tok.oct[i] >= 0
    /\ Len(tok.oct) >= 2
    /\ Reserved(tok)

NotPrivateAddress(tok) == ~IsPrivateAddress(tok)

\* the list with every private address removed
WithoutPrivate(ips) == SelectSeq(ips, NotPrivateAddress)

\* C17 (private filtering comes first): run(A, filter_private=True) gives
\* what run(A', filter_private=False) gives, A' being A with every private
\* address removed.
C17_PrivateFilterFirst ==
    (Done /\ filter_private) => ret = run(WithoutPrivate(input_ips), FALSE)

\* element i of the ascending list l starts a run: it is the first element,
\* or lies more than m above the element before it
StartsRun(l, i, m) == i = 1 \/ IntLess(IntAdd(l[i - 1], m), l[i])

\* the index at which the run starting at i ends
RunEnd(l, i, m) ==
    CHOOSE j \in i..Len(l) :
        /\ \A k \in (i + 1)..j : ~StartsRun(l, k, m)
        /\ j = Len(l) \/ StartsRun(l, j + 1, m)

\* the maximal runs of l
RunsOf(l, m) ==
    {SubSeq(l, i, RunEnd(l, i, m)) : i \in {k \in 1..Len(l) : StartsRun(l, k, m)}}

\* C18 (maximal runs): on an ascending list group_by_gap returns the maximal
\* runs of addresses whose consecutive gaps are <= max_gap: the runs of two or
\* more as the Clusters and the runs of one as the Singletons, each once and
\* in the order of the list, so that every element is in exactly one of
\* them; the empty list gives ([], []) and a list of one x gives ([], [x]).
C18_MaximalRuns ==
    Called("group_by_gap") =>
        LET l == arg.ips_int
            runs == RunsOf(l, arg.gap_max)
            long == {r \in runs : Len(r) >= 2}
            short == {r \in runs : Len(r) = 1}
            groups == out.val.groups
            singles == out.val.singles
        IN  /\ Range(groups) = long
            /\ Len(groups) = Cardinality(long)
            /\ Range(singles) = {r[1] : r \in short}
            /\ Len(singles) = Cardinality(short)
            /\ \A i \in 1..(Len(groups) - 1) :
                  IntLess(groups[i][Len(groups[i])], groups[i + 1][1])
            /\ \A i \in 1..(Len(singles) - 1) : IntLess(singles[i], singles[i + 1])
            /\ l = <<>> => groups = <<>> /\ singles = <<>>
            /\ Len(l) = 1 => groups = <<>> /\ singles = <<l[1]>>

C18_Witness ==
    /\ Called("group_by_gap")
    /\ arg.gap_max = max_gap
    /\ Len(arg.ips_int) = 4
    /\ arg.ips_int[2] = IntAdd(arg.ips_int[1], max_gap)
    /\ arg.ips_int[3] = IntAdd(arg.ips_int[2], max_gap + 1)
    /\ arg.ips_int[4] = IntAdd(arg.ips_int[3], max_gap + 1)
    /\ Len(out.val.groups) = 1
    /\ Len(out.val.singles) = 2

\* the integers run has put into buckets
Bucketed == UNION {Range(subnet_groups[b].ips) : b \in 1..Len(subnet_groups)}

\* C19 (Clusters stay inside a /24): the list of every bucket, which is what
\* run passes to group_by_gap, is ascending; the addresses of every Cluster
\* share their first three octets; and addresses of different /24 are in
\* different buckets, hence never in one Cluster, however small their gap.
C19_ClustersWithinBucket ==
    pc \in {"buckets", "done"} =>
        /\ \A b \in 1..Len(subnet_groups) :
              \A i \in 1..(Len(subnet_groups[b].ips) - 1) :
                  IntLeq(subnet_groups[b].ips[i], subnet_groups[b].ips[i + 1])
        /\ \A g \in AllClusters : \A x, y \in Range(g) : x[1] = y[1]
        /\ \A b, c \in 1..Len(subnet_groups) :
              (\E x \in Range(subnet_groups[b].ips), y \in Range(subnet_groups[c].ips) :
                   x[1] # y[1]) => b # c

C19_Witness ==
    /\ HasReturned /\ InputWellFormed
    /\ AllClusters # {}
    /\ \E x, y \in Bucketed :
          /\ x[1] # y[1]
          /\ IntLess(x, y) /\ IntLeq(y, IntAdd(x, max_gap))
    /\ IntLess(Value32(input_ips[Len(input_ips)]), Value32(input_ips[1]))

\* the integer n is excluded: its last octet is 0 or 255
ExcludedInt(n) == n[2] \in {0, 255}

\* pad, ascending, holds count integers, all on the far side of edge (below
\* it when side = -1, above it when side = 1) and none excluded, and every
\* integer between edge and the farthest of them is in pad or excluded
NearestPad(pad, count, edge, side) ==
    /\ Len(pad) = count
    /\ \A i \in 1..(Len(pad) - 1) : IntLess(pad[i], pad[i + 1])
    /\ \A i \in 1..Len(pad) :
          /\ ~ExcludedInt(pad[i])
          /\ IF side = -1 THEN IntLess(pad[i], edge) ELSE IntLess(edge, pad[i])
    /\ count > 0 =>
          LET far == IF side = -1 THEN pad[1] ELSE pad[Len(pad)]
              reach == IF side = -1 THEN IntSub(edge, far) ELSE IntSub(far, edge)
          IN  \A k \in 1..reach :
                  \/ IntAdd(edge, side * k) \in Range(pad)
                  \/ ExcludedInt(IntAdd(edge, side * k))

\* C20 (padding): the list expand_group_properly returns starts with exactly
\* `forward` integers, the largest non-excluded ones below min_ip in
\* ascending order, then holds the group and the middle fill, and ends with
\* exactly `backward` integers, the smallest non-excluded ones above max_ip;
\* excluded integers are walked over and not counted.
C20_PaddingNearest ==
    Called("expand_group_properly") =>
        LET all == out.val.ips_int
            n == Len(arg.group)
            lo == LeastOf(Range(arg.group))
            hi == GreatestOf(Range(arg.group))
        IN  /\ Len(all) >= arg.fwd + n + arg.bwd
            /\ SubSeq(all, arg.fwd + 1, arg.fwd + n) = arg.group
            /\ \A i \in (arg.fwd + n + 1)..(Len(all) - arg.bwd) :
                  IntLess(lo, all[i]) /\ IntLess(all[i], hi)
            /\ NearestPad(SubSeq(all, 1, arg.fwd), arg.fwd, lo, -1)
            /\ NearestPad(SubSeq(all, Len(all) - arg.bwd + 1, Len(all)), arg.bwd, hi, 1)

C20_Witness ==
    /\ Called("expand_group_properly")
    /\ arg.fwd = forward /\ arg.bwd = backward
    /\ IntSub(LeastOf(Range(arg.group)), out.val.ips_int[1]) > forward
    /\ Len(out.val.ips_int) = forward + Len(arg.group) + backward

\* the integers from a to b that are not excluded
NonExcludedBetween(a, b) ==
    {n \in {IntAdd(a, k) : k \in 0..IntSub(b, a)} : ~ExcludedInt(n)}

\* C21 (gap filling): the list expand_group_properly returns holds every
\* member of the group and every non-excluded integer strictly between
\* min_ip and max_ip; for a group without excluded members its set is exactly
\* the set of non-excluded integers from its own minimum to its own maximum.
C21_GapFilling ==
    Called("expand_group_properly") =>
        LET all == Range(out.val.ips_int)
            lo == LeastOf(Range(arg.group))
            hi == GreatestOf(Range(arg.group))
        IN  /\ Range(arg.group) \subseteq all
            /\ \A n \in NonExcludedBetween(lo, hi) : n \in all
            /\ (\A x \in Range(arg.group) : ~ExcludedInt(x)) =>
                  all = NonExcludedBetween(LeastOf(all), GreatestOf(all))

C21_Witness ==
    /\ Called("expand_group_properly")
    /\ arg.fwd > 0 /\ arg.bwd > 0
    /\ \A x \in Range(arg.group) : ~ExcludedInt(x)
    /\ LeastOf(Range(arg.group))[1] # GreatestOf(Range(arg.group))[1]
    /\ IntSub(GreatestOf(Range(arg.group)), LeastOf(Range(arg.group))) > 8

\* what expand_group_properly returns for the Clusters run has formed
ExpansionOf(g) == expand_group_properly(g, forward, backward)

\* C22 (no duplicates in an expansion): for every Cluster run passes to
\* expand_group_properly, a Cluster of a repeated input address included,
\* the returned list holds no integer twice and expanded_count is the
\* number of distinct integers of it.
C22_ExpansionHasNoDuplicates ==
    pc \in {"buckets", "done"} =>
        \A g \in AllClusters :
            /\ Len(ExpansionOf(g).ips_int) = Cardinality(Range(ExpansionOf(g).ips_int))
            /\ ExpansionOf(g).expanded_count = Cardinality(Range(ExpansionOf(g).ips_int))

\* C27 (expansion stays inside the address space): for a group of integers
\* of [0, 2^32 - 1], every integer of the list expand_group_properly returns
\* lies in [0, 2^32 - 1], and start_ip and the network part of the CIDR are
\* the dotted quad of the numeric minimum of that list.
C27_ExpansionIn32Bits ==
    (Called("expand_group_properly") /\ \A x \in Range(arg.group) : In32(x)) =>
        /\ \A x \in Range(out.val.ips_int) : In32(x)
        /\ Canonical(out.val.start_ip)
        /\ Value32(out.val.start_ip) = LeastOf(Range(out.val.ips_int))
        /\ Canonical(out.val.cidr.network)
        /\ Value32(out.val.cidr.network) = LeastOf(Range(out.val.ips_int))

\* C28 (a block stays inside its expansion): every address cidr_to_ips
\* materializes from the CIDR of a Cluster lies between the least and the
\* greatest integer of the Cluster's expansion.  Stated on lists of
\* well-formed addresses.
C28_BlockWithinExpansion ==
    (pc \in {"buckets", "done"} /\ InputWellFormed) =>
        \A g \in AllClusters :
            \A a \in Range(cidr_to_ips(ExpansionOf(g).cidr)) :
                /\ IntLeq(LeastOf(Range(ExpansionOf(g).ips_int)), Value32(a))
                /\ IntLeq(Value32(a), GreatestOf(Range(ExpansionOf(g).ips_int)))

\* the /24 prefixes (first three octets) of the addresses of a list
PrefixesOf(ips) == {SubSeq(ips[i].oct, 1, 3) : i \in 1..Len(ips)}

\* how often x occurs in the list s
Count(x, s) == Cardinality({i \in 1..Len(s) : s[i] = x})

\* input_ips cut after its first k tokens
FirstPart(k) == SubSeq(input_ips, 1, k)
SecondPart(k) == SubSeq(input_ips, k + 1, Len(input_ips))

\* C23 (buckets do not interact): when the input list is A ++ B with A and B
\* lists of well-formed addresses sharing no /24 prefix, the address list run
\* returns is the ascending list, without repetition, of the addresses
\* run(A) and run(B) return, and its CIDR list is the ascending merge of
\* their CIDR lists.
C23_BucketsIndependent ==
    (Done /\ InputWellFormed) =>
        \A k \in 0..Len(input_ips) :
            (PrefixesOf(FirstPart(k)) \cap PrefixesOf(SecondPart(k)) = {}) =>
                LET ra == run(FirstPart(k), filter_private)
                    rb == run(SecondPart(k), filter_private)
                IN  /\ ret.kind = "return" /\ ra.kind = "return" /\ rb.kind = "return"
                    /\ Range(ret.ips) = Range(ra.ips) \cup Range(rb.ips)
                    /\ \A i \in 1..(Len(ret.ips) - 1) :
                          IntLess(Value32(ret.ips[i]), Value32(ret.ips[i + 1]))
                    /\ Len(ret.cidrs) = Len(ra.cidrs) + Len(rb.cidrs)
                    /\ \A c \in Range(ret.cidrs) :
                          Count(c, ret.cidrs) = Count(c, ra.cidrs) + Count(c, rb.cidrs)
                    /\ \A i \in 1..(Len(ret.cidrs) - 1) :
                          IntLeq(Value32(ret.cidrs[i].network),
                                 Value32(ret.cidrs[i + 1].network))

C23_Witness ==
    /\ HasReturned /\ InputWellFormed
    /\ \E k \in 1..(Len(input_ips) - 1) :
          /\ PrefixesOf(FirstPart(k)) \cap PrefixesOf(SecondPart(k)) = {}
          /\ run(FirstPart(k), filter_private).ips # <<>>
          /\ run(SecondPart(k), filter_private).cidrs # <<>>
          /\ Range(run(FirstPart(k), filter_private).ips)
                \cap Range(run(SecondPart(k), filter_private).ips) # {}

\* the padding loop has been left
PadDone == fn = "pad" /\ out.kind = "return"

\* the loop followed by iterations collects what PadWalk collects
PadStepwiseIsPadWalk ==
    PadDone =>
        out.val = LET w == PadWalk(PadStart(arg).current, arg.step, arg.count,
                                   Range(arg.group), <<>>)
                  IN  IF arg.step = -1 THEN Reverse(w) ELSE w

\* the steps run has left at most: its straight-line stages and one
\* iteration of the loop of line 225 for each bucket not yet processed
RunRank ==
    CASE pc = "clean" -> Len(input_ips) + 4
      [] pc = "exclude" -> Len(input_ips) + 3
      [] pc = "partition" -> Len(input_ips) + 2
      [] pc = "buckets" -> Len(subnet_groups) - next_bucket + 2
      [] OTHER -> 0

\* some step of run can be taken
RunCanStep ==
    \/ pc = "clean"
    \/ pc = "exclude"
    \/ pc = "partition"
    \/ pc = "buckets" /\ next_bucket <= Len(subnet_groups) + 1

\* C24 (termination): run, started on a finite list, can always take a step
\* until it has returned or raised, and every step leaves it fewer steps to
\* take; and each padding loop of expand_group_properly, started on any group
\* with any count >= 0, is left, also when the walk passes 0.0.0.0 or
\* 255.255.255.255.
C24_Terminates ==
    /\ [](fn = "run" => (Done \/ RunCanStep))
    /\ [][fn = "run" => (RunRank' < RunRank /\ RunRank' >= 0)]_vars
    /\ <>(fn = "run" \/ PadDone)

C24_Witness ==
    /\ PadDone
    /\ arg.step = -1 /\ arg.count = forward
    /\ Len(out.val) = forward
    /\ out.val[1][1] < 0

---------------------------------------------------------------------------
\* Vocabulary of the properties of the pipeline

\* the stages of a round in the order of main.main()
StageOrder == <<"host", "nali", "masscan", "whatweb">>

\* the stages that have returned in the round of t, and their counts
StagesOf(t) == [i \in 1..Len(t.returned) |-> t.returned[i].stage]
CountsOf(t) == [i \in 1..Len(t.returned) |-> t.returned[i].ret]

RECURSIVE SumOf(_)
SumOf(s) == IF s = <<>> THEN 0 ELSE Head(s) + SumOf(Tail(s))

AllZero(s) == \A i \in 1..Len(s) : s[i] = 0

\* the records the stage reads as pending on spreadsheet bk
PendingOf(stage, bk) ==
    CASE stage = "host" ->
             read_excel_sheet_as_list(bk.subdomains, Ne("host_status", Processed),
                 "name", 0)
      [] stage = "nali" ->
             read_excel_sheet_as_list(bk.non_cdn_ips, Ne("nali_status", Processed),
                 "name", 0)
      [] stage = "masscan" ->
             read_excel_sheet_as_list(bk.segments, Ne("masscan_status", Processed),
                 "name", MasscanLimit)
      [] stage = "whatweb" -> whatweb_urls(bk).urls

\* cip_run gives what run gives
CipRunIsRun ==
    fn = "main" =>
        LET allncip == read_excel_sheet_as_list(book.non_cdn_ips,
                           Eq("type", NonCloudIp), "name", 0)
            r == run([i \in 1..Len(allncip) |-> Str(allncip[i].oct)], TRUE)
        IN  /\ r.kind = "return"
            /\ cip_run(allncip) = [i \in 1..Len(r.ips) |-> Text("", r.ips[i].oct, <<>>)]

AliveThreads == {t \in DOMAIN thread : thread[t].pc \notin {"none", "dead"}}

\* C26 (the task manager runs the same pipeline): every round of run_task
\* executes the four stages host, nali, masscan and HTTP service discovery
\* as main.main() does, and its round total is the sum of the four counts.
C26_RunTaskRunsMainPipeline ==
    fn = "webUI" =>
        \A t \in DOMAIN thread :
            thread[t].pc = "check" =>
                /\ StagesOf(thread[t]) = StageOrder
                /\ thread[t].processed_count = SumOf(CountsOf(thread[t]))

\* C29 (one pipeline thread): whatever the interleaving of the requests, at
\* most one run_task thread is alive, and a start request is accepted only
\* when none is.
C29_OnePipelineThread ==
    fn = "webUI" =>
        /\ Cardinality(AliveThreads) <= 1
        /\ \A r \in StartRequests :
              request[r].pc = "run_main" => AliveThreads = {}

\* C30 (progress): every record a stage reads as pending is marked '处理'
\* when the stage returns, so the stage does not read it as pending again.
C30_PendingMarked ==
    [][fn = "main" =>
          \A i \in 1..4 :
              (thread["main"].pc = StageOrder[i] /\ thread'["main"].pc # StageOrder[i])
                  => Range(PendingOf(StageOrder[i], book))
                         \cap Range(PendingOf(StageOrder[i], book')) = {}]_vars

====
